---- MODULE Spec2Model ----
(***************************************************************************)
(* Model of the CUDA Huffman compressor (main_compress.cu, parallel.cu,    *)
(* GPU_kernels.cu) and of the serial decompressor (main_decompress.c,      *)
(* serial_utilities.c).                                                    *)
(*                                                                         *)
(* The machine is scaled down so that TLC can run it: the byte alphabet,   *)
(* the width of unsigned int and the memory figures are small numbers,     *)
(* named below.  Every arithmetic step keeps the shape it has in the       *)
(* source (same operands, same order, same wrap-around), only the sizes    *)
(* differ.                                                                 *)
(***************************************************************************)
EXTENDS Integers, Sequences, FiniteSets, TLC

(***************************************************************************)
(* Sizes of the scaled machine.                                            *)
(***************************************************************************)
\* number of byte values (256 in the source)
NumByteValues == 3
\* bits of unsigned int (32 in the source)
UIntBits == 7
\* bits of long unsigned int (64 in the source)
ULongBits == 12
\* MIN_SCRATCH_SIZE, scaled from 50 MiB
MIN_SCRATCH_SIZE == 16
\* the safety margin subtracted from the free memory, scaled from 10 MiB
SAFETY_MARGIN == 4
\* the margin added in the overflow-flag test (255 in the source: the longest code)
LEN_MARGIN == 2
\* threads of the one block every kernel is launched with (1024 in the source)
BLOCK_SIZE == 2
\* bounds of the inputs: every string up to MaxShort bytes, and up to three
\* runs of up to MaxRun equal bytes each
MaxShort == 4
MaxRun == 5
\* free device memory above the fixed structures, as reported by cudaMemGetInfo
MaxFreeAbove == 20

\* bits of the fast region of a code, and the first length stored in constant memory
FAST_BITS == 191
CONST_MEMORY_FROM == 192

ByteValues == 0 .. (NumByteValues - 1)
UINT_MAX == 2^UIntBits - 1
UIntMod == 2^UIntBits
ULongMod == 2^ULongBits
PoolSize == 2 * NumByteValues
NULL == -1

\* TLC passes the arguments of an operator unevaluated: a loop that hands
\* its result to the next iteration evaluates it first
Evaluated(v) == v = v

(***************************************************************************)
(* The node pool: huffman_tree_node[512], head_huffman_tree_node.          *)
(***************************************************************************)
ZeroNode == [letter |-> 0, count |-> 0, left |-> NULL, right |-> NULL]

EmptyPool == [s \in 0 .. (PoolSize - 1) |-> ZeroNode]

\* frequency[] as main counts it: one increment of frequency[data[index]]
\* for each index
CountFrequency(data) ==
    [b \in ByteValues |->
        Cardinality({index \in 1 .. Len(data) : data[index] = b}) % UIntMod]

ZeroFrequency == [b \in ByteValues |-> 0]

\* the leaf loop of main: one leaf per present byte, in ascending byte order
RECURSIVE InitLeaves(_, _, _, _)
InitLeaves(frequency, index, pool, distinct_character_count) ==
    IF index = NumByteValues
    THEN [pool |-> pool, count |-> distinct_character_count]
    ELSE IF frequency[index] > 0
         THEN InitLeaves(frequency, index + 1,
                  [pool EXCEPT ![distinct_character_count] =
                       [letter |-> index, count |-> frequency[index],
                        left |-> NULL, right |-> NULL]],
                  distinct_character_count + 1)
         ELSE InitLeaves(frequency, index + 1, pool, distinct_character_count)

\* the while loop of the insertion sort
RECURSIVE InsertShift(_, _, _, _)
InsertShift(pool, start, sub_index, temp) ==
    IF sub_index >= start /\ pool[sub_index].count > temp.count
    THEN InsertShift([pool EXCEPT ![sub_index + 1] = pool[sub_index]],
                     start, sub_index - 1, temp)
    ELSE [pool EXCEPT ![sub_index + 1] = temp]

RECURSIVE InsertFrom(_, _, _, _)
InsertFrom(pool, start, end, index) ==
    IF index > end THEN pool
    ELSE InsertFrom(InsertShift(pool, start, index - 1, pool[index]),
                    start, end, index + 1)

\* sort_huffman_tree of the compressor (insertion sort)
sort_huffman_tree(pool, index_param, distinct_character_count, combined_huffman_nodes) ==
    InsertFrom(pool, combined_huffman_nodes,
               distinct_character_count - 1 + index_param,
               combined_huffman_nodes + 1)

\* a faulty inner loop: it swaps equal counts as well
RECURSIVE BubbleInnerUnstable(_, _, _)
BubbleInnerUnstable(pool, b, limit) ==
    IF b >= limit THEN pool
    ELSE IF pool[b].count >= pool[b + 1].count
         THEN BubbleInnerUnstable([pool EXCEPT ![b] = pool[b + 1], ![b + 1] = pool[b]],
                                  b + 1, limit)
         ELSE BubbleInnerUnstable(pool, b + 1, limit)

\* the inner loop of the bubble sort
RECURSIVE BubbleInner(_, _, _)
BubbleInner(pool, b, limit) ==
    IF b >= limit THEN pool
    ELSE IF pool[b].count > pool[b + 1].count
         THEN BubbleInner([pool EXCEPT ![b] = pool[b + 1], ![b + 1] = pool[b]],
                          b + 1, limit)
         ELSE BubbleInner(pool, b + 1, limit)

RECURSIVE BubbleOuter(_, _, _, _)
BubbleOuter(pool, a, start, limit) ==
    IF a >= limit THEN pool
    ELSE BubbleOuter(BubbleInner(pool, start, limit), a + 1, start, limit)

\* sort_huffman_tree of the stand-alone decompressor (bubble sort)
serial_sort_huffman_tree(pool, index, distinct_character_count, combined_huffman_nodes) ==
    BubbleOuter(pool, combined_huffman_nodes, combined_huffman_nodes,
                distinct_character_count - 1 + index)

\* build_huffman_tree: the new internal node; the head becomes its slot
build_huffman_tree(pool, index, distinct_character_count, combined_huffman_nodes) ==
    [pool EXCEPT ![distinct_character_count + index] =
        [@ EXCEPT !.count = (pool[combined_huffman_nodes].count
                             + pool[combined_huffman_nodes + 1].count) % UIntMod,
                  !.left = combined_huffman_nodes,
                  !.right = combined_huffman_nodes + 1]]

\* the construction loop of main_compress.cu (sort, then combine). Its bound
\* distinct_character_count - 1 is unsigned: with no leaf at all it is
\* UINT_MAX, and the loop combines nodes until it leaves the pool, which the
\* program does not survive
RECURSIVE CompressTreeLoop(_, _, _, _)
CompressTreeLoop(pool, head, index, distinct_character_count) ==
    IF index >= (distinct_character_count - 1) % UIntMod
    THEN [pool |-> pool, head |-> head, crashed |-> FALSE]
    ELSE IF 2 * index + 1 >= PoolSize \/ distinct_character_count + index >= PoolSize
    THEN [pool |-> pool, head |-> head, crashed |-> TRUE]
    ELSE LET sorted == sort_huffman_tree(pool, index, distinct_character_count, 2 * index)
         IN  CompressTreeLoop(
                 build_huffman_tree(sorted, index, distinct_character_count, 2 * index),
                 distinct_character_count + index, index + 1, distinct_character_count)

\* tree initialisation and construction of main_compress.cu, with its
\* special case for one distinct character
CompressorTree(frequency) ==
    LET leaves == InitLeaves(frequency, 0, EmptyPool, 0)
        built  == CompressTreeLoop(leaves.pool, NULL, 0, leaves.count)
    IN  [pool |-> built.pool,
         head |-> IF leaves.count = 1 THEN 0 ELSE built.head,
         distinct_character_count |-> leaves.count,
         crashed |-> built.crashed]

\* the construction loop of main_decompress.c
RECURSIVE DecompressTreeLoop(_, _, _, _)
DecompressTreeLoop(pool, head, index, distinct_character_count) ==
    IF index >= distinct_character_count - 1
    THEN [pool |-> pool, head |-> head]
    ELSE LET sorted == serial_sort_huffman_tree(pool, index, distinct_character_count,
                                                2 * index)
         IN  DecompressTreeLoop(
                 build_huffman_tree(sorted, index, distinct_character_count, 2 * index),
                 distinct_character_count + index, index + 1, distinct_character_count)

\* tree initialisation and construction of main_decompress.c: the head is
\* the global's initial NULL unless the loop sets it
DecompressorTree(frequency) ==
    LET leaves == InitLeaves(frequency, 0, EmptyPool, 0)
        built  == DecompressTreeLoop(leaves.pool, NULL, 0, leaves.count)
    IN  [pool |-> built.pool, head |-> built.head,
         distinct_character_count |-> leaves.count]

(***************************************************************************)
(* The code-book: struct huffman_dictionary, bit_sequence_const_memory,    *)
(* const_memory_flag.                                                      *)
(***************************************************************************)
EmptyDictionary ==
    [bit_sequence_length |-> [b \in ByteValues |-> 0],
     bit_sequence |-> [b \in ByteValues |-> << >>],
     bit_sequence_const_memory |-> [b \in ByteValues |-> << >>],
     const_memory_flag |-> 0]

\* a faulty store: the memcpy copies one bit less than the code has
StoreCodeShort(dict, letter, bit_sequence) ==
    [dict EXCEPT !.bit_sequence_length[letter] = Len(bit_sequence),
                 !.bit_sequence[letter] =
                     SubSeq(bit_sequence, 1, Len(bit_sequence) - 1)]

\* what build_huffman_dictionary stores at a leaf
StoreCode(dict, letter, bit_sequence) ==
    IF Len(bit_sequence) < CONST_MEMORY_FROM
    THEN [dict EXCEPT !.bit_sequence_length[letter] = Len(bit_sequence),
                      !.bit_sequence[letter] = bit_sequence]
    ELSE [dict EXCEPT !.bit_sequence_length[letter] = Len(bit_sequence),
                      !.bit_sequence_const_memory[letter] = bit_sequence,
                      !.bit_sequence[letter] = SubSeq(bit_sequence, 1, FAST_BITS),
                      !.const_memory_flag = 1]

\* build_huffman_dictionary: depth-first, left appends 0, right appends 1
RECURSIVE build_huffman_dictionary(_, _, _, _)
build_huffman_dictionary(pool, root, bit_sequence, dict) ==
    LET afterLeft ==
            IF pool[root].left # NULL
            THEN build_huffman_dictionary(pool, pool[root].left,
                                          Append(bit_sequence, 0), dict)
            ELSE dict
        afterRight ==
            IF pool[root].right # NULL
            THEN build_huffman_dictionary(pool, pool[root].right,
                                          Append(bit_sequence, 1), afterLeft)
            ELSE afterLeft
    IN  IF pool[root].left = NULL /\ pool[root].right = NULL
        THEN StoreCode(afterRight, pool[root].letter, bit_sequence)
        ELSE afterRight

\* build_huffman_dictionary of the stand-alone decompressor: the same
\* traversal; a leaf stores its length and its whole code
RECURSIVE serial_build_huffman_dictionary(_, _, _, _)
serial_build_huffman_dictionary(pool, root, bit_sequence, dict) ==
    LET afterLeft ==
            IF pool[root].left # NULL
            THEN serial_build_huffman_dictionary(pool, pool[root].left,
                                                 Append(bit_sequence, 0), dict)
            ELSE dict
        afterRight ==
            IF pool[root].right # NULL
            THEN serial_build_huffman_dictionary(pool, pool[root].right,
                                                 Append(bit_sequence, 1), afterLeft)
            ELSE afterLeft
    IN  IF pool[root].left = NULL /\ pool[root].right = NULL
        THEN [afterRight EXCEPT
                 !.bit_sequence_length[pool[root].letter] = Len(bit_sequence),
                 !.bit_sequence[pool[root].letter] = bit_sequence]
        ELSE afterRight

\* the bytes of the fast region and of constant memory are zero until written
FastBit(dict, b, j) ==
    IF j < Len(dict.bit_sequence[b]) THEN dict.bit_sequence[b][j + 1] ELSE 0

ConstBit(dict, b, j) ==
    IF j < Len(dict.bit_sequence_const_memory[b])
    THEN dict.bit_sequence_const_memory[b][j + 1] ELSE 0

(***************************************************************************)
(* Memory.  A block of malloc, calloc or cudaMalloc is its size, its cells *)
(* and the cells next to it: an access at an index >= size is undefined    *)
(* behaviour; it is recorded in oob, and when the program survives it the  *)
(* neighbouring memory behaves as plain memory (beyond, zero until         *)
(* written).                                                               *)
(***************************************************************************)
NoMap == [i \in {} |-> 0]

\* calloc(size, ...): size zero cells
Calloc(size) ==
    [size |-> size, cells |-> [i \in 0 .. (size - 1) |-> 0], beyond |-> NoMap,
     oob |-> {}]

NoBlock == Calloc(0)

Peek(block, i) ==
    IF i < block.size THEN block.cells[i]
    ELSE IF i \in DOMAIN block.beyond THEN block.beyond[i] ELSE 0

Store(block, i, v) ==
    IF i < block.size
    THEN [block EXCEPT !.cells[i] = v]
    ELSE [block EXCEPT
             !.beyond = [j \in (DOMAIN block.beyond) \cup {i} |->
                            IF j = i THEN v ELSE block.beyond[j]],
             !.oob = @ \cup {i}]

\* a read that the code performs: out of the block it is recorded as well
Load(block, i) ==
    IF i < block.size THEN block ELSE [block EXCEPT !.oob = @ \cup {i}]

\* cudaMemset(block, 0, size): only the block's own cells
Memset0(block) == [block EXCEPT !.cells = [i \in 0 .. (block.size - 1) |-> 0]]

RoundUp8(v) == IF v % 8 # 0 THEN v + (8 - (v % 8)) ELSE v

(***************************************************************************)
(* The offset planner: the four overloads of create_data_offset_array.     *)
(* data is a sequence of bytes, off a function on 0 .. input_file_length.  *)
(***************************************************************************)
\* a faulty length: the code of the byte before the one at index
CodeLenOfPrevious(dict, data, index) ==
    dict.bit_sequence_length[data[IF index = 0 THEN 1 ELSE index]]

\* huffman_dictionary.bit_sequence_length[input_file_data[index]]
CodeLen(dict, data, index) == dict.bit_sequence_length[data[index + 1]]

ZeroOffsets(input_file_length) == [i \in 0 .. input_file_length |-> 0]

\* the final padding of compressed_data_offset[input_file_length]
PadLast(off, input_file_length) ==
    [off EXCEPT ![input_file_length] = RoundUp8(@) % UIntMod]

\* (a) one kernel, no overflow: one iteration of the loop
SimpleIteration(dict, data, off, index) ==
    [off EXCEPT ![index + 1] = (CodeLen(dict, data, index) + off[index]) % UIntMod]

\* the iterations index .. end - 1 of the loop, in order
RECURSIVE SimpleLoop(_, _, _, _, _)
SimpleLoop(dict, data, off, index, end) ==
    IF index >= end THEN off
    ELSE IF end - index = 1 THEN SimpleIteration(dict, data, off, index)
    ELSE LET middle == (index + end) \div 2
             first == SimpleLoop(dict, data, off, index, middle)
         IN  CASE Evaluated(first) -> SimpleLoop(dict, data, first, middle, end)

create_data_offset_array_simple(dict, data, input_file_length) ==
    PadLast(SimpleLoop(dict, data, ZeroOffsets(input_file_length), 0, Len(data)),
            input_file_length)

\* a faulty restart: the offset of the boundary byte is left as it is
RestartAtUnrounded(dict, data, off, index) ==
    IF off[index] % 8 # 0
    THEN [off EXCEPT ![index + 1] = ((off[index] % 8) + CodeLen(dict, data, index)) % UIntMod]
    ELSE [off EXCEPT ![index + 1] = CodeLen(dict, data, index)]

\* the restart at a boundary found at index: the next offset, and the
\* offset of index itself rounded up
RestartAt(dict, data, off, index) ==
    IF off[index] % 8 # 0
    THEN [off EXCEPT ![index + 1] = ((off[index] % 8) + CodeLen(dict, data, index)) % UIntMod,
                     ![index] = (off[index] + (8 - (off[index] % 8))) % UIntMod]
    ELSE [off EXCEPT ![index + 1] = CodeLen(dict, data, index)]

\* (b) one kernel, overflow. st = [off, integer_overflow_index,
\* bit_padding_flag, sub_index]; one iteration of the loop
OverflowIteration(dict, data, st, num_bytes, index) ==
    LET off1 == [st.off EXCEPT ![index + 1] =
                    (CodeLen(dict, data, index) + st.off[index]) % UIntMod]
    IN  IF (off1[index + 1] + num_bytes) % UIntMod < off1[index]
        THEN [off |-> RestartAt(dict, data, off1, index),
              integer_overflow_index |->
                  Store(st.integer_overflow_index, st.sub_index, index),
              bit_padding_flag |->
                  IF off1[index] % 8 # 0
                  THEN Store(st.bit_padding_flag, st.sub_index, 1)
                  ELSE st.bit_padding_flag,
              sub_index |-> st.sub_index + 1]
        ELSE [st EXCEPT !.off = off1]

\* the iterations index .. end - 1 of the loop, in order
RECURSIVE OverflowLoop(_, _, _, _, _, _)
OverflowLoop(dict, data, st, num_bytes, index, end) ==
    IF index >= end THEN st
    ELSE IF end - index = 1 THEN OverflowIteration(dict, data, st, num_bytes, index)
    ELSE LET middle == (index + end) \div 2
             first == OverflowLoop(dict, data, st, num_bytes, index, middle)
         IN  CASE Evaluated(first) ->
                  OverflowLoop(dict, data, first, num_bytes, middle, end)

create_data_offset_array_overflow(dict, data, input_file_length, integer_overflow_index, bit_padding_flag, num_bytes) ==
    LET st == OverflowLoop(dict, data,
                  [off |-> ZeroOffsets(input_file_length),
                   integer_overflow_index |-> integer_overflow_index,
                   bit_padding_flag |-> bit_padding_flag,
                   sub_index |-> 0],
                  num_bytes, 0, Len(data))
    IN  [st EXCEPT !.off = PadLast(st.off, input_file_length)]

\* (c) several kernels, no overflow. st = [off, gpu_memory_overflow_index,
\* gpu_bit_padding_flag, sub_index]: what the overload has before its loop
ChunkPlanBegin(input_file_length, gpu_memory_overflow_index, gpu_bit_padding_flag) ==
    [off |-> ZeroOffsets(input_file_length),
     gpu_memory_overflow_index |-> Store(gpu_memory_overflow_index, 0, 0),
     gpu_bit_padding_flag |-> Store(gpu_bit_padding_flag, 0, 0),
     sub_index |-> 0]

\* one iteration of its loop, for the byte at index
ChunkPlanIteration(dict, data, st, mem_req, index) ==
    LET off1 == [st.off EXCEPT ![index + 1] =
                    (CodeLen(dict, data, index) + st.off[index]) % UIntMod]
    IN  IF off1[index + 1] > mem_req
        THEN [off |-> RestartAt(dict, data, off1, index),
              gpu_memory_overflow_index |->
                  Store(Store(st.gpu_memory_overflow_index,
                              st.sub_index * 2 + 1, index),
                        st.sub_index * 2 + 2, index + 1),
              gpu_bit_padding_flag |->
                  IF off1[index] % 8 # 0
                  THEN Store(st.gpu_bit_padding_flag, st.sub_index + 1, 1)
                  ELSE st.gpu_bit_padding_flag,
              sub_index |-> st.sub_index + 1]
        ELSE [st EXCEPT !.off = off1]

\* what it does after its loop
ChunkPlanEnd(st, input_file_length) ==
    [st EXCEPT !.off = PadLast(st.off, input_file_length),
               !.gpu_memory_overflow_index =
                   Store(@, st.sub_index * 2 + 1, input_file_length)]

\* (d) several kernels, overflow. st = [off, integer_overflow_index,
\* bit_padding_flag, gpu_memory_overflow_index, gpu_bit_padding_flag,
\* sub_index, overflow_index]; one iteration of the loop
BothIteration(dict, data, st, num_bytes, mem_req, index) ==
    LET off1 == [st.off EXCEPT ![index + 1] =
                    (CodeLen(dict, data, index) + st.off[index]) % UIntMod]
        last == Peek(st.integer_overflow_index, st.sub_index - 1)
    IN  IF st.sub_index # 0 /\ (off1[index + 1] + off1[last]) % ULongMod > mem_req
        THEN [st EXCEPT
                !.off = RestartAt(dict, data, off1, index),
                !.gpu_memory_overflow_index =
                    Store(Store(@, st.overflow_index * 2 + 1, index),
                          st.overflow_index * 2 + 2, index + 1),
                !.gpu_bit_padding_flag =
                    IF off1[index] % 8 # 0
                    THEN Store(@, st.overflow_index + 1, 1) ELSE @,
                !.overflow_index = @ + 1]
        ELSE IF (off1[index + 1] + num_bytes) % UIntMod < off1[index]
        THEN [st EXCEPT
                !.off = RestartAt(dict, data, off1, index),
                !.integer_overflow_index = Store(@, st.sub_index, index),
                !.bit_padding_flag =
                    IF off1[index] % 8 # 0
                    THEN Store(@, st.sub_index, 1) ELSE @,
                !.sub_index = @ + 1]
        ELSE [st EXCEPT !.off = off1]

\* the iterations index .. end - 1 of the loop, in order
RECURSIVE BothLoop(_, _, _, _, _, _, _)
BothLoop(dict, data, st, num_bytes, mem_req, index, end) ==
    IF index >= end THEN st
    ELSE IF end - index = 1 THEN BothIteration(dict, data, st, num_bytes, mem_req, index)
    ELSE LET middle == (index + end) \div 2
             first == BothLoop(dict, data, st, num_bytes, mem_req, index, middle)
         IN  CASE Evaluated(first) ->
                  BothLoop(dict, data, first, num_bytes, mem_req, middle, end)

create_data_offset_array_both(dict, data, input_file_length, integer_overflow_index, bit_padding_flag, gpu_memory_overflow_index, gpu_bit_padding_flag, num_bytes, mem_req) ==
    LET st == BothLoop(dict, data,
                  [off |-> ZeroOffsets(input_file_length),
                   integer_overflow_index |-> integer_overflow_index,
                   bit_padding_flag |-> bit_padding_flag,
                   gpu_memory_overflow_index |-> gpu_memory_overflow_index,
                   gpu_bit_padding_flag |-> gpu_bit_padding_flag,
                   sub_index |-> 0, overflow_index |-> 0],
                  num_bytes, mem_req, 0, Len(data))
    IN  [st EXCEPT !.off = PadLast(st.off, input_file_length),
                   !.gpu_memory_overflow_index =
                       Store(@, st.sub_index * 2 + 1, input_file_length)]

(***************************************************************************)
(* The kernels of GPU_kernels.cu.  One block of BLOCK_SIZE threads; the    *)
(* threads of a phase are run one after the other (thread 0 first), the    *)
(* barrier is the boundary between the two phases.                         *)
(***************************************************************************)
\* the source of bit bit_index of a code: the constant-memory path reads
\* the fast region below FAST_BITS and constant memory from there on
CodeBit(dict, letter, bit_index, const_memory_flag) ==
    IF const_memory_flag = 0 \/ bit_index < FAST_BITS
    THEN FastBit(dict, letter, bit_index)
    ELSE ConstBit(dict, letter, bit_index)

\* the bit loop: the code of letter written at scratch[at ..]
RECURSIVE EncodeAt(_, _, _, _, _, _)
EncodeAt(scratch, dict, letter, at, const_memory_flag, bit_index) ==
    IF bit_index >= dict.bit_sequence_length[letter] THEN scratch
    ELSE EncodeAt(Store(scratch, (at + bit_index) % UIntMod,
                        CodeBit(dict, letter, bit_index, const_memory_flag)),
                  dict, letter, at, const_memory_flag, bit_index + 1)

\* the number of iterations of for (index = first; index < upper; index +=
\* blockDim.x)
StrideCount(first, upper) ==
    IF first >= upper THEN 0 ELSE (upper - first + BLOCK_SIZE - 1) \div BLOCK_SIZE

\* one thread's stride loop: for (index = first; index < upper; index +=
\* blockDim.x) encode the byte at index + shift at offset[index + shift];
\* the iterations run in order, the first half before the second
RECURSIVE StrideEncode(_, _, _, _, _, _, _, _)
StrideEncode(d_in, off, dict, scratch, index, upper, shift, const_memory_flag) ==
    IF index >= upper THEN scratch
    ELSE IF upper - index <= BLOCK_SIZE
    THEN EncodeAt(scratch, dict, Peek(d_in, index + shift), off[index + shift],
                  const_memory_flag, 0)
    ELSE LET middle == index + BLOCK_SIZE * (StrideCount(index, upper) \div 2)
             first == StrideEncode(d_in, off, dict, scratch, index, middle, shift,
                                   const_memory_flag)
         IN  CASE Evaluated(first) ->
                  StrideEncode(d_in, off, dict, first, middle, upper, shift,
                               const_memory_flag)

\* the stride loop of every thread pos .. BLOCK_SIZE - 1, started at base + pos
RECURSIVE AllThreadsEncode(_, _, _, _, _, _, _, _, _)
AllThreadsEncode(d_in, off, dict, scratch, pos, base, upper, shift, const_memory_flag) ==
    IF pos >= BLOCK_SIZE THEN scratch
    ELSE AllThreadsEncode(d_in, off, dict,
             StrideEncode(d_in, off, dict, scratch, base + pos, upper, shift,
                          const_memory_flag),
             pos + 1, base, upper, shift, const_memory_flag)

\* thread 0's memcpy of a boundary byte's code: length bytes from the row
\* of the fast region (const_memory_flag = 0) or of constant memory
RECURSIVE MemcpyCode(_, _, _, _, _, _)
MemcpyCode(scratch, dict, letter, at, const_memory_flag, k) ==
    IF k >= dict.bit_sequence_length[letter] THEN scratch
    ELSE MemcpyCode(Store(scratch, (at + k) % UIntMod,
                          IF const_memory_flag = 0 THEN FastBit(dict, letter, k)
                          ELSE ConstBit(dict, letter, k)),
                    dict, letter, at, const_memory_flag, k + 1)

BoundaryByte(d_in, off, dict, scratch, boundary, next, const_memory_flag) ==
    LET letter == Peek(d_in, boundary)
    IN  MemcpyCode(scratch, dict, letter,
                   (off[next] - dict.bit_sequence_length[letter]) % UIntMod,
                   const_memory_flag, 0)

\* the eight shifts that pack scratch[index .. index + 7] into d_in[target]
RECURSIVE PackGroup(_, _, _, _, _)
PackGroup(st, index, target, sub_index, from) ==
    IF sub_index >= 8 THEN st
    ELSE LET src == IF from = 1 THEN st.scratch ELSE st.overflow
             bit == IF Peek(src, index + sub_index) = 0 THEN 0 ELSE 1
             old == Peek(st.d_in, target)
             loaded == Load(src, index + sub_index)
             next == [d_in |-> Store(st.d_in, target, (old * 2 + bit) % 256),
                      scratch |-> IF from = 1 THEN loaded ELSE st.scratch,
                      overflow |-> IF from = 1 THEN st.overflow ELSE loaded]
         IN  CASE Evaluated(next) -> PackGroup(next, index, target, sub_index + 1, from)

\* one thread's packing loop: for (index = pos * 8; index < limit; index +=
\* blockDim.x * 8); where the index cannot wrap, the iterations run in
\* order, the first half before the second
RECURSIVE StridePack(_, _, _, _, _)
StridePack(st, index, limit, byte_offset, from) ==
    IF index >= limit THEN st
    ELSE IF limit - index > BLOCK_SIZE * 8 /\ limit + BLOCK_SIZE * 8 <= UIntMod
    THEN LET count == (limit - index + BLOCK_SIZE * 8 - 1) \div (BLOCK_SIZE * 8)
             middle == index + BLOCK_SIZE * 8 * (count \div 2)
             first == StridePack(st, index, middle, byte_offset, from)
         IN  CASE Evaluated(first) -> StridePack(first, middle, limit, byte_offset, from)
    ELSE LET next == PackGroup(st, index, (index \div 8) + byte_offset, 0, from)
         IN  CASE Evaluated(next) ->
                  StridePack(next, (index + BLOCK_SIZE * 8) % UIntMod, limit,
                             byte_offset, from)

RECURSIVE AllThreadsPack(_, _, _, _, _)
AllThreadsPack(st, pos, limit, byte_offset, from) ==
    IF pos >= BLOCK_SIZE THEN st
    ELSE AllThreadsPack(StridePack(st, pos * 8, limit, byte_offset, from),
                        pos + 1, limit, byte_offset, from)

\* compress, single run, no overflow
compress_single(d_in, off, dict, scratch, input_file_length, const_memory_flag) ==
    LET phase1 == AllThreadsEncode(d_in, off, dict, scratch, 0, 0, input_file_length,
                                   0, const_memory_flag)
    IN  AllThreadsPack([d_in |-> d_in, scratch |-> phase1, overflow |-> NoBlock],
                       0, off[input_file_length], 0, 1)

\* compress, one chunk [d_lower_position, d_upper_position) of several, no overflow
compress_chunk(d_in, off, dict, scratch, d_lower_position, const_memory_flag, d_upper_position) ==
    LET strided == AllThreadsEncode(d_in, off, dict, scratch, 0, d_lower_position,
                                    d_upper_position, 0, const_memory_flag)
        phase1 == IF d_lower_position # 0
                  THEN BoundaryByte(d_in, off, dict, strided, d_lower_position - 1,
                                    d_lower_position, const_memory_flag)
                  ELSE strided
    IN  AllThreadsPack([d_in |-> d_in, scratch |-> phase1, overflow |-> NoBlock],
                       0, off[d_upper_position], 0, 1)

(***************************************************************************)
(* The two kernels with a second scratch buffer (d_temp_overflow), with    *)
(* the threads of a phase run one after the other.                         *)
(***************************************************************************)
\* compress, single run, overflow at overflow_position
compress_single_overflow(d_in, off, dict, scratch, overflow, input_file_length, const_memory_flag, overflow_position) ==
    LET first == AllThreadsEncode(d_in, off, dict, scratch, 0, 0, overflow_position, 0,
                                  const_memory_flag)
        second == AllThreadsEncode(d_in, off, dict, overflow, 0, overflow_position,
                                   (input_file_length - 1) % UIntMod, 1, const_memory_flag)
        boundary == BoundaryByte(d_in, off, dict, second, overflow_position,
                                 overflow_position + 1, const_memory_flag)
        phase1 == [d_in |-> d_in, scratch |-> first, overflow |-> boundary]
        packed == AllThreadsPack(phase1, 0, off[overflow_position], 0, 1)
    IN  CASE Evaluated(phase1) /\ Evaluated(packed) ->
                 AllThreadsPack(packed, 0, off[input_file_length],
                                off[overflow_position] \div 8, 2)

\* the second loop of the constant-memory path of the chunk kernel with
\* overflow: as many bits as the code of the byte at index + 1 has, taken
\* from the code of the byte at index, written to the first scratch buffer
\* at the offset of index
RECURSIVE MixedEncodeAt(_, _, _, _, _, _)
MixedEncodeAt(scratch, dict, letter, length, at, bit_index) ==
    IF bit_index >= length THEN scratch
    ELSE MixedEncodeAt(Store(scratch, (at + bit_index) % UIntMod,
                             CodeBit(dict, letter, bit_index, 1)),
                       dict, letter, length, at, bit_index + 1)

RECURSIVE MixedStride(_, _, _, _, _, _)
MixedStride(d_in, off, dict, scratch, index, upper) ==
    IF index >= upper THEN scratch
    ELSE IF upper - index <= BLOCK_SIZE
    THEN MixedEncodeAt(scratch, dict, Peek(d_in, index),
                       dict.bit_sequence_length[Peek(d_in, index + 1)], off[index], 0)
    ELSE LET middle == index + BLOCK_SIZE * (StrideCount(index, upper) \div 2)
             first == MixedStride(d_in, off, dict, scratch, index, middle)
         IN  CASE Evaluated(first) -> MixedStride(d_in, off, dict, first, middle, upper)

RECURSIVE AllThreadsMixed(_, _, _, _, _, _, _)
AllThreadsMixed(d_in, off, dict, scratch, pos, base, upper) ==
    IF pos >= BLOCK_SIZE THEN scratch
    ELSE AllThreadsMixed(d_in, off, dict,
                         MixedStride(d_in, off, dict, scratch, base + pos, upper),
                         pos + 1, base, upper)

\* compress, one chunk of several, overflow at overflow_position
compress_chunk_overflow(d_in, off, dict, scratch, overflow, d_lower_position, const_memory_flag, d_upper_position, overflow_position) ==
    LET first == IF const_memory_flag = 0
                 THEN AllThreadsEncode(d_in, off, dict, scratch, 0, d_lower_position,
                                       overflow_position, 0, 0)
                 ELSE AllThreadsEncode(d_in, off, dict, scratch, 0, d_lower_position,
                                       d_upper_position, 0, 1)
        second == IF const_memory_flag = 0
                  THEN [scratch |-> first,
                        overflow |-> AllThreadsEncode(d_in, off, dict, overflow, 0,
                                         overflow_position,
                                         (d_upper_position - 1) % UIntMod, 1, 0)]
                  ELSE [scratch |-> AllThreadsMixed(d_in, off, dict, first, 0,
                                        overflow_position,
                                        (d_upper_position - 1) % UIntMod),
                        overflow |-> overflow]
        at_overflow == BoundaryByte(d_in, off, dict, second.overflow, overflow_position,
                                    overflow_position + 1, const_memory_flag)
        at_lower == IF d_lower_position # 0
                    THEN BoundaryByte(d_in, off, dict, second.scratch, d_lower_position - 1,
                                      d_lower_position, const_memory_flag)
                    ELSE second.scratch
        phase1 == [d_in |-> d_in, scratch |-> at_lower, overflow |-> at_overflow]
        packed == AllThreadsPack(phase1, 0, off[overflow_position], 0, 1)
    IN  CASE Evaluated(first) /\ Evaluated(second) /\ Evaluated(phase1)
             /\ Evaluated(packed) ->
                 AllThreadsPack(packed, 0, off[d_upper_position],
                                off[overflow_position] \div 8, 2)


(***************************************************************************)
(* The state: the files, the globals and locals of main_compress.cu and of *)
(* launch_cuda_huffman_compress, the device buffers, and the locals of     *)
(* main_decompress.c.                                                      *)
(***************************************************************************)
VARIABLES
    pc,                       \* where the two programs are
    input_file,               \* the bytes of argv[1] of the compressor
    mem_free,                 \* what cudaMemGetInfo reports
    input_file_data,          \* host buffer: the input, then the packed bytes
    input_file_length,
    frequency,
    huffman_tree_node,
    head_huffman_tree_node,
    distinct_character_count,
    huffman_dictionary,       \* with bit_sequence_const_memory and const_memory_flag
    mem_offset,
    mem_req,
    num_kernel_runs,
    integer_overflow_flag,
    compressed_data_offset,
    gpu_memory_overflow_index,
    gpu_bit_padding_flag,
    integer_overflow_index,
    bit_padding_flag,
    plan_index,               \* the chunk planner's index and sub_index
    plan_sub_index,
    d_input_file_data,
    d_byte_compressed_data,
    d_byte_compressed_data_overflow,
    pos,                      \* the handlers' position in the output buffer
    kernel_index,             \* the handlers' loop index: kernels launched so far
    cuda_error,               \* check_cuda_error has printed a failure
    launch,                   \* the kernel in flight, thread by thread
    thread,                   \* where each of its threads is
    scratch_writes,           \* the writes of its phase 1
    output_writes,            \* the writes of its packing phase
    compressed_file,          \* the container, once written
    dec_huffman_tree_node,    \* the decompressor's pool and head
    dec_head_huffman_tree_node,
    dec_huffman_dictionary,
    output_data,
    output_file_length_counter,
    output_file

fileVars == <<input_file, mem_free>>
hostVars == <<input_file_length, frequency, huffman_tree_node, head_huffman_tree_node,
              distinct_character_count, huffman_dictionary>>
memVars == <<mem_offset, mem_req, num_kernel_runs, integer_overflow_flag>>
planVars == <<compressed_data_offset, gpu_memory_overflow_index, gpu_bit_padding_flag,
              integer_overflow_index, bit_padding_flag, plan_index, plan_sub_index>>
kernelVars == <<launch, thread, scratch_writes, output_writes>>
devVars == <<d_input_file_data, d_byte_compressed_data, d_byte_compressed_data_overflow,
             pos, kernel_index, cuda_error, launch, thread, scratch_writes, output_writes>>
decVars == <<dec_huffman_tree_node, dec_head_huffman_tree_node, dec_huffman_dictionary,
             output_data, output_file_length_counter, output_file>>
vars == <<pc, fileVars, input_file_data, hostVars, memVars, planVars, devVars,
          compressed_file, decVars>>

\* a block filled from a sequence (fread, cudaMemcpy of a whole buffer)
BlockOf(seq) ==
    [size |-> Len(seq), cells |-> [i \in 0 .. (Len(seq) - 1) |-> seq[i + 1]],
     beyond |-> NoMap, oob |-> {}]

\* malloc(size): size cells of whatever the heap held (garbage)
Malloc(size, garbage) ==
    [size |-> size, cells |-> [i \in 0 .. (size - 1) |-> garbage], beyond |-> NoMap,
     oob |-> {}]

\* the first n cells of a block, as a sequence (fwrite, the planners' view)
Prefix(block, n) == [i \in 1 .. n |-> Peek(block, i - 1)]

\* the reads of fwrite or cudaMemcpy over cells from .. from + n - 1
RECURSIVE LoadRange(_, _, _)
LoadRange(block, from, n) ==
    IF n <= 0 THEN block
    ELSE LET next == Load(block, from + n - 1)
         IN  CASE Evaluated(next) -> LoadRange(next, from, n - 1)

\* cudaMemcpy / memcpy of n cells from src[from ..] to dst[to ..]
RECURSIVE CopyCells(_, _, _, _, _)
CopyCells(dst, to, src, from, n) ==
    IF n <= 0 THEN dst
    ELSE LET next == Store(dst, to, Peek(src, from))
         IN  CASE Evaluated(next) -> CopyCells(next, to + 1, src, from + 1, n - 1)

\* bitwise OR of two bytes
RECURSIVE ByteOr(_, _, _)
ByteOr(a, b, k) ==
    IF k = 0 THEN 0
    ELSE 2 * ByteOr(a \div 2, b \div 2, k - 1)
         + (IF a % 2 = 1 \/ b % 2 = 1 THEN 1 ELSE 0)

\* the outcomes of a step: where it goes on, and a crash if it ran into
\* undefined behaviour on one of the blocks it used
Outcomes(next, blocks) ==
    IF \E b \in blocks : b.oob # {} THEN {next, "crashed"} ELSE {next}

(***************************************************************************)
(* The inputs.                                                             *)
(***************************************************************************)
Strings(lo, hi) == UNION {[1 .. n -> ByteValues] : n \in lo .. hi}

RECURSIVE Repeat(_, _)
Repeat(u, k) == IF k = 0 THEN << >> ELSE u \o Repeat(u, k - 1)

Runs ==
    {Repeat(<<a>>, i) \o Repeat(<<b>>, j) \o Repeat(<<c>>, k) :
        a \in ByteValues, b \in ByteValues, c \in ByteValues,
        i \in 0 .. MaxRun, j \in 0 .. MaxRun, k \in 0 .. MaxRun}

Inputs == {x \in Strings(1, MaxShort) \cup Runs : Len(x) >= 1}

\* a file that has not been written
NoFile == [written |-> FALSE]

SizeofDictionary == NumByteValues * FAST_BITS + NumByteValues

\* mem_data of main: the input, the offsets and the dictionary
MemData(n) == (n + (n + 1) * 4 + SizeofDictionary) % ULongMod

\* no kernel is in flight
NoLaunch == [variant |-> "none", lower |-> 0, upper |-> 0, overflow_position |-> 0]

NoThreads == [t \in 0 .. (BLOCK_SIZE - 1) |-> [phase |-> "done", step |-> 0]]

\* the state after the file is read: nothing else has run
Loaded ==
    /\ pc = "read"
    /\ input_file_data = BlockOf(input_file)
    /\ input_file_length = Len(input_file)
    /\ frequency = ZeroFrequency
    /\ huffman_tree_node = EmptyPool
    /\ head_huffman_tree_node = NULL
    /\ distinct_character_count = 0
    /\ huffman_dictionary = EmptyDictionary
    /\ mem_offset = 0
    /\ mem_req = 0
    /\ num_kernel_runs = 0
    /\ integer_overflow_flag = 0
    /\ compressed_data_offset = ZeroOffsets(0)
    /\ gpu_memory_overflow_index = NoBlock
    /\ gpu_bit_padding_flag = NoBlock
    /\ integer_overflow_index = NoBlock
    /\ bit_padding_flag = NoBlock
    /\ plan_index = 0
    /\ plan_sub_index = 0
    /\ d_input_file_data = NoBlock
    /\ d_byte_compressed_data = NoBlock
    /\ d_byte_compressed_data_overflow = NoBlock
    /\ pos = 0
    /\ kernel_index = 0
    /\ cuda_error = FALSE
    /\ launch = NoLaunch
    /\ thread = NoThreads
    /\ scratch_writes = {}
    /\ output_writes = {}
    /\ compressed_file = NoFile
    /\ dec_huffman_tree_node = EmptyPool
    /\ dec_head_huffman_tree_node = NULL
    /\ dec_huffman_dictionary = EmptyDictionary
    /\ output_data = NoBlock
    /\ output_file_length_counter = 0
    /\ output_file = NoFile

\* what cudaMemGetInfo reports as free, above mem_data: one byte short of the
\* scratch the program asks for, exactly that much, and the most
FreeAbove == {MIN_SCRATCH_SIZE - 1, MIN_SCRATCH_SIZE, MaxFreeAbove}

Init ==
    /\ input_file \in Inputs
    /\ \E above \in FreeAbove :
           mem_free = (MemData(Len(input_file)) + above) % ULongMod
    /\ Loaded

(***************************************************************************)
(* main of main_compress.cu.                                               *)
(***************************************************************************)
\* the frequency loops
CountFrequencies ==
    /\ pc = "read"
    /\ frequency' = CountFrequency(Prefix(input_file_data, input_file_length))
    /\ pc' = "counted"
    /\ UNCHANGED <<fileVars, input_file_data, input_file_length, huffman_tree_node,
                   head_huffman_tree_node, distinct_character_count, huffman_dictionary,
                   memVars, planVars, devVars, compressed_file, decVars>>

\* tree initialisation and construction
BuildTree ==
    /\ pc = "counted"
    /\ LET t == CompressorTree(frequency)
       IN  /\ huffman_tree_node' = t.pool
           /\ head_huffman_tree_node' = t.head
           /\ distinct_character_count' = t.distinct_character_count
           /\ pc' = IF t.crashed THEN "crashed" ELSE "tree"
    /\ UNCHANGED <<fileVars, input_file_data, input_file_length, frequency,
                   huffman_dictionary, memVars, planVars, devVars, compressed_file,
                   decVars>>

\* dictionary generation
BuildDictionary ==
    /\ pc = "tree"
    /\ huffman_dictionary' =
           build_huffman_dictionary(huffman_tree_node, head_huffman_tree_node, << >>,
                                    EmptyDictionary)
    /\ pc' = "dictionary"
    /\ UNCHANGED <<fileVars, input_file_data, input_file_length, frequency,
                   huffman_tree_node, head_huffman_tree_node, distinct_character_count,
                   memVars, planVars, devVars, compressed_file, decVars>>

\* the size loop of main: each product is an unsigned int, the sum a long
RECURSIVE SumBits(_, _, _, _)
SumBits(freq, dict, index, sum) ==
    IF index = NumByteValues THEN sum
    ELSE SumBits(freq, dict, index + 1,
                 (sum + ((freq[index] * dict.bit_sequence_length[index]) % UIntMod))
                     % ULongMod)

\* a faulty mem_offset: the size in bits, not rounded
MemOffsetUnrounded(freq, dict) == SumBits(freq, dict, 0, 0)

\* mem_offset: the size in bits, rounded up to a byte
MemOffset(freq, dict) == RoundUp8(SumBits(freq, dict, 0, 0)) % ULongMod

\* num_kernel_runs = ceil((double) mem_offset / mem_req)
KernelRuns(offset, req) == (offset + req - 1) \div req

\* a faulty integer_overflow_flag: set when either figure exceeds UINT_MAX
OverflowFlagEither(req, offset) ==
    IF (req + LEN_MARGIN) % ULongMod <= UINT_MAX
       /\ (offset + LEN_MARGIN) % ULongMod <= UINT_MAX
    THEN 0 ELSE 1

\* integer_overflow_flag
OverflowFlag(req, offset) ==
    IF (req + LEN_MARGIN) % ULongMod <= UINT_MAX
       \/ (offset + LEN_MARGIN) % ULongMod <= UINT_MAX
    THEN 0 ELSE 1

\* the memory check, and the strategy
AnalyseMemory ==
    /\ pc = "dictionary"
    /\ LET offset == MemOffset(frequency, huffman_dictionary)
           mem_data == MemData(input_file_length)
           req == (mem_free - mem_data - SAFETY_MARGIN) % ULongMod
       IN  /\ mem_offset' = offset
           /\ IF (mem_free - mem_data) % ULongMod < MIN_SCRATCH_SIZE
              THEN /\ pc' = "exit_failure"
                   /\ UNCHANGED <<mem_req, num_kernel_runs, integer_overflow_flag>>
              ELSE /\ pc' = "analysed"
                   /\ mem_req' = req
                   /\ num_kernel_runs' = KernelRuns(offset, req)
                   /\ integer_overflow_flag' = OverflowFlag(req, offset)
    /\ UNCHANGED <<fileVars, input_file_data, hostVars, planVars, devVars,
                   compressed_file, decVars>>

(***************************************************************************)
(* launch_cuda_huffman_compress.                                           *)
(***************************************************************************)
\* the safety margin of the overflow test (10240 in the source)
NUM_BYTES == 22

\* generate_offset_arrays with one planner call: the arrays it allocates and
\* the overload it runs ((a), (b) or (d))
OffsetArrays(dict, data, n, runs, flag, req) ==
    IF flag = 0
    THEN [off |-> create_data_offset_array_simple(dict, data, n),
          gpu_memory_overflow_index |-> NoBlock, gpu_bit_padding_flag |-> NoBlock,
          integer_overflow_index |-> NoBlock, bit_padding_flag |-> NoBlock]
    ELSE IF runs = 1
         THEN LET st == create_data_offset_array_overflow(dict, data, n,
                            Calloc(runs * 2), Calloc(runs), NUM_BYTES)
              IN  [off |-> st.off,
                   gpu_memory_overflow_index |-> NoBlock,
                   gpu_bit_padding_flag |-> NoBlock,
                   integer_overflow_index |-> st.integer_overflow_index,
                   bit_padding_flag |-> st.bit_padding_flag]
         ELSE LET st == create_data_offset_array_both(dict, data, n, Calloc(runs * 2),
                            Calloc(runs), Calloc(runs * 2), Calloc(runs), NUM_BYTES,
                            req)
              IN  [off |-> st.off,
                   gpu_memory_overflow_index |-> st.gpu_memory_overflow_index,
                   gpu_bit_padding_flag |-> st.gpu_bit_padding_flag,
                   integer_overflow_index |-> st.integer_overflow_index,
                   bit_padding_flag |-> st.bit_padding_flag]

\* every scenario but the chunking one: the planner runs in one step
GenerateOffsetArrays ==
    /\ pc = "analysed"
    /\ num_kernel_runs = 1 \/ integer_overflow_flag # 0
    /\ LET plan == OffsetArrays(huffman_dictionary,
                                Prefix(input_file_data, input_file_length),
                                input_file_length, num_kernel_runs,
                                integer_overflow_flag, mem_req)
       IN  /\ compressed_data_offset' = plan.off
           /\ gpu_memory_overflow_index' = plan.gpu_memory_overflow_index
           /\ gpu_bit_padding_flag' = plan.gpu_bit_padding_flag
           /\ integer_overflow_index' = plan.integer_overflow_index
           /\ bit_padding_flag' = plan.bit_padding_flag
           /\ pc' \in Outcomes("planned",
                               {plan.gpu_memory_overflow_index, plan.gpu_bit_padding_flag,
                                plan.integer_overflow_index, plan.bit_padding_flag})
    /\ plan_index' = input_file_length
    /\ UNCHANGED <<fileVars, input_file_data, hostVars, memVars, plan_sub_index, devVars,
                   compressed_file, decVars>>

\* the chunking scenario (several kernels, no overflow), the planner's loop
\* taken one iteration at a time: the arrays are allocated for
\* num_kernel_runs chunks and the overload starts
GenerateChunkArraysBegin ==
    /\ pc = "analysed"
    /\ num_kernel_runs # 1
    /\ integer_overflow_flag = 0
    /\ LET st == ChunkPlanBegin(input_file_length, Calloc(num_kernel_runs * 2),
                                Calloc(num_kernel_runs))
       IN  /\ compressed_data_offset' = st.off
           /\ gpu_memory_overflow_index' = st.gpu_memory_overflow_index
           /\ gpu_bit_padding_flag' = st.gpu_bit_padding_flag
           /\ plan_sub_index' = st.sub_index
    /\ plan_index' = 0
    /\ pc' = "planning"
    /\ UNCHANGED <<fileVars, input_file_data, hostVars, memVars, integer_overflow_index,
                   bit_padding_flag, devVars, compressed_file, decVars>>

\* one iteration of the overload's loop
GenerateChunkArraysIteration ==
    /\ pc = "planning"
    /\ plan_index < input_file_length
    /\ LET st == ChunkPlanIteration(huffman_dictionary,
                      Prefix(input_file_data, input_file_length),
                      [off |-> compressed_data_offset,
                       gpu_memory_overflow_index |-> gpu_memory_overflow_index,
                       gpu_bit_padding_flag |-> gpu_bit_padding_flag,
                       sub_index |-> plan_sub_index],
                      mem_req, plan_index)
       IN  /\ compressed_data_offset' = st.off
           /\ gpu_memory_overflow_index' = st.gpu_memory_overflow_index
           /\ gpu_bit_padding_flag' = st.gpu_bit_padding_flag
           /\ plan_sub_index' = st.sub_index
    /\ plan_index' = plan_index + 1
    /\ pc' = "planning"
    /\ UNCHANGED <<fileVars, input_file_data, hostVars, memVars, integer_overflow_index,
                   bit_padding_flag, devVars, compressed_file, decVars>>

\* the end of the overload: the final padding and the last chunk's end
GenerateChunkArraysEnd ==
    /\ pc = "planning"
    /\ plan_index >= input_file_length
    /\ LET st == ChunkPlanEnd([off |-> compressed_data_offset,
                               gpu_memory_overflow_index |-> gpu_memory_overflow_index,
                               gpu_bit_padding_flag |-> gpu_bit_padding_flag,
                               sub_index |-> plan_sub_index],
                              input_file_length)
       IN  /\ compressed_data_offset' = st.off
           /\ gpu_memory_overflow_index' = st.gpu_memory_overflow_index
           /\ pc' \in Outcomes("planned",
                               {st.gpu_memory_overflow_index, st.gpu_bit_padding_flag})
    /\ UNCHANGED <<fileVars, input_file_data, hostVars, memVars, gpu_bit_padding_flag,
                   integer_overflow_index, bit_padding_flag, plan_index, plan_sub_index,
                   devVars, compressed_file, decVars>>

\* initialize_gpu_memory
InitializeGpuMemory ==
    /\ pc = "planned"
    /\ d_input_file_data' = BlockOf(Prefix(input_file_data, input_file_length))
    /\ pc' = "gpu_ready"
    /\ UNCHANGED <<fileVars, input_file_data, hostVars, memVars, planVars,
                   d_byte_compressed_data, d_byte_compressed_data_overflow, pos,
                   kernel_index, cuda_error, kernelVars, compressed_file, decVars>>

\* handle_single_kernel_no_overflow
HandleSingleKernelNoOverflow ==
    /\ pc = "gpu_ready"
    /\ num_kernel_runs = 1
    /\ integer_overflow_flag = 0
    /\ LET total == compressed_data_offset[input_file_length]
           run == compress_single(d_input_file_data, compressed_data_offset,
                                  huffman_dictionary, Calloc(total), input_file_length,
                                  huffman_dictionary.const_memory_flag)
           copied == CopyCells(input_file_data, 0, run.d_in, 0, total \div 8)
           read == LoadRange(run.d_in, 0, total \div 8)
       IN  /\ d_input_file_data' = read
           /\ d_byte_compressed_data' = run.scratch
           /\ input_file_data' = copied
           /\ pc' \in Outcomes("compressed", {read, run.scratch, copied})
    /\ kernel_index' = 1
    /\ UNCHANGED <<fileVars, hostVars, memVars, planVars,
                   d_byte_compressed_data_overflow, pos, cuda_error, kernelVars, compressed_file,
                   decVars>>

\* handle_multiple_kernels_no_overflow: the allocation before the loop
MultipleKernelsNoOverflowBegin ==
    /\ pc = "gpu_ready"
    /\ num_kernel_runs # 1
    /\ integer_overflow_flag = 0
    /\ LET first_end == Peek(gpu_memory_overflow_index, 1)
           looked == Load(gpu_memory_overflow_index, 1)
       IN  /\ gpu_memory_overflow_index' = looked
           /\ d_byte_compressed_data' = Calloc(compressed_data_offset[first_end])
           /\ pc' \in Outcomes("chunks", {looked})
    /\ pos' = 0
    /\ kernel_index' = 0
    /\ UNCHANGED <<fileVars, input_file_data, hostVars, memVars, compressed_data_offset,
                   gpu_bit_padding_flag, integer_overflow_index, bit_padding_flag,
                   plan_index, plan_sub_index, d_input_file_data,
                   d_byte_compressed_data_overflow, cuda_error, kernelVars, compressed_file,
                   decVars>>

\* one iteration of its loop: memset, kernel, copy (with the merge)
MultipleKernelsNoOverflowChunk ==
    /\ pc = "chunks"
    /\ kernel_index < num_kernel_runs
    /\ LET lower == Peek(gpu_memory_overflow_index, kernel_index * 2)
           upper == Peek(gpu_memory_overflow_index, kernel_index * 2 + 1)
           bytes == compressed_data_offset[upper] \div 8
           run == compress_chunk(d_input_file_data, compressed_data_offset,
                                 huffman_dictionary, Memset0(d_byte_compressed_data),
                                 lower, huffman_dictionary.const_memory_flag, upper)
           read == LoadRange(run.d_in, 0, bytes)
       IN  /\ d_input_file_data' = read
           /\ d_byte_compressed_data' = run.scratch
           /\ IF Peek(gpu_bit_padding_flag, kernel_index) = 0
              THEN /\ input_file_data' = CopyCells(input_file_data, pos, run.d_in, 0, bytes)
                   /\ pos' = (pos + bytes) % UIntMod
              ELSE LET before == (pos - 1) % UIntMod
                       temp_comp_byte == Peek(input_file_data, before)
                       copied == CopyCells(Load(input_file_data, before), before,
                                           run.d_in, 0, bytes)
                   IN  /\ input_file_data' =
                               Store(copied, before,
                                     ByteOr(temp_comp_byte, Peek(copied, before), 8))
                       /\ pos' = (pos + bytes - 1) % UIntMod
           /\ pc' \in Outcomes("chunks", {read, run.scratch, input_file_data'})
    /\ kernel_index' = kernel_index + 1
    /\ UNCHANGED <<fileVars, hostVars, memVars, planVars,
                   d_byte_compressed_data_overflow, cuda_error, kernelVars, compressed_file,
                   decVars>>

\* the end of its loop: the buffers are freed
MultipleKernelsNoOverflowEnd ==
    /\ pc = "chunks"
    /\ kernel_index >= num_kernel_runs
    /\ pc' = "compressed"
    /\ UNCHANGED <<fileVars, input_file_data, hostVars, memVars, planVars, devVars,
                   compressed_file, decVars>>

\* handle_single_kernel_with_overflow: the two scratch buffers, the kernel,
\* and the copy in two parts (with the merge of the byte the parts share)
HandleSingleKernelWithOverflow ==
    /\ pc = "gpu_ready"
    /\ num_kernel_runs = 1
    /\ integer_overflow_flag # 0
    /\ LET overflow_position == Peek(integer_overflow_index, 0)
           looked == Load(integer_overflow_index, 0)
           flagged == Load(bit_padding_flag, 0)
           first == compressed_data_offset[overflow_position] \div 8
           bytes == compressed_data_offset[input_file_length] \div 8
           run == compress_single_overflow(d_input_file_data, compressed_data_offset,
                      huffman_dictionary, Calloc(compressed_data_offset[overflow_position]),
                      Calloc(compressed_data_offset[input_file_length]), input_file_length,
                      huffman_dictionary.const_memory_flag, overflow_position)
           part1 == CopyCells(input_file_data, 0, run.d_in, 0, first)
           read == LoadRange(LoadRange(run.d_in, 0, first), first, bytes)
           before == (first - 1) % UIntMod
           temp_comp_byte == Peek(part1, before)
           copied == CopyCells(Load(part1, before), before, run.d_in, first, bytes)
           part2 == IF Peek(bit_padding_flag, 0) = 0
                    THEN CopyCells(part1, first, run.d_in, first, bytes)
                    ELSE Store(copied, before,
                               ByteOr(temp_comp_byte, Peek(copied, before), 8))
       IN  /\ integer_overflow_index' = looked
           /\ bit_padding_flag' = flagged
           /\ d_input_file_data' = read
           /\ d_byte_compressed_data' = run.scratch
           /\ d_byte_compressed_data_overflow' = run.overflow
           /\ input_file_data' = part2
           /\ pc' \in Outcomes("compressed",
                               {looked, flagged, read, run.scratch, run.overflow, part2})
    /\ kernel_index' = 1
    /\ UNCHANGED <<fileVars, hostVars, memVars, compressed_data_offset,
                   gpu_memory_overflow_index, gpu_bit_padding_flag, plan_index,
                   plan_sub_index, pos, cuda_error, kernelVars, compressed_file, decVars>>

\* handle_multiple_kernels_with_overflow: the allocations before the loop
MultipleKernelsWithOverflowBegin ==
    /\ pc = "gpu_ready"
    /\ num_kernel_runs # 1
    /\ integer_overflow_flag # 0
    /\ LET looked == Load(integer_overflow_index, 0)
           first_end == Load(gpu_memory_overflow_index, 1)
       IN  /\ integer_overflow_index' = looked
           /\ gpu_memory_overflow_index' = first_end
           /\ d_byte_compressed_data' =
                  Calloc(compressed_data_offset[Peek(integer_overflow_index, 0)])
           /\ d_byte_compressed_data_overflow' =
                  Calloc(compressed_data_offset[Peek(gpu_memory_overflow_index, 1)])
           /\ pc' \in Outcomes("overflow_chunks", {looked, first_end})
    /\ pos' = 0
    /\ kernel_index' = 0
    /\ UNCHANGED <<fileVars, input_file_data, hostVars, memVars, compressed_data_offset,
                   gpu_bit_padding_flag, bit_padding_flag, plan_index, plan_sub_index,
                   d_input_file_data, cuda_error, kernelVars, compressed_file, decVars>>

\* one iteration of its loop, for a chunk with an overflow inside: the two
\* memsets and the kernel; nothing is copied to the host
MultipleKernelsWithOverflowChunkOverflow ==
    /\ pc = "overflow_chunks"
    /\ kernel_index < num_kernel_runs
    /\ Peek(integer_overflow_index, kernel_index) # 0
    /\ LET lower == Peek(gpu_memory_overflow_index, kernel_index * 2)
           upper == Peek(gpu_memory_overflow_index, kernel_index * 2 + 1)
           run == compress_chunk_overflow(d_input_file_data, compressed_data_offset,
                      huffman_dictionary, Memset0(d_byte_compressed_data),
                      Memset0(d_byte_compressed_data_overflow), lower,
                      huffman_dictionary.const_memory_flag, upper,
                      Peek(integer_overflow_index, kernel_index))
       IN  /\ d_input_file_data' = run.d_in
           /\ d_byte_compressed_data' = run.scratch
           /\ d_byte_compressed_data_overflow' = run.overflow
           /\ pc' \in Outcomes("overflow_chunks", {run.d_in, run.scratch, run.overflow})
    /\ kernel_index' = kernel_index + 1
    /\ UNCHANGED <<fileVars, input_file_data, hostVars, memVars, planVars, pos, cuda_error,
                   kernelVars, compressed_file, decVars>>

\* one iteration of its loop, for a chunk without overflow: memset, kernel,
\* copy (with the merge)
MultipleKernelsWithOverflowChunkPlain ==
    /\ pc = "overflow_chunks"
    /\ kernel_index < num_kernel_runs
    /\ Peek(integer_overflow_index, kernel_index) = 0
    /\ LET lower == Peek(gpu_memory_overflow_index, kernel_index * 2)
           upper == Peek(gpu_memory_overflow_index, kernel_index * 2 + 1)
           bytes == compressed_data_offset[upper] \div 8
           run == compress_chunk(d_input_file_data, compressed_data_offset,
                                 huffman_dictionary, Memset0(d_byte_compressed_data),
                                 lower, huffman_dictionary.const_memory_flag, upper)
           read == LoadRange(run.d_in, 0, bytes)
       IN  /\ d_input_file_data' = read
           /\ d_byte_compressed_data' = run.scratch
           /\ IF Peek(gpu_bit_padding_flag, kernel_index) = 0
              THEN /\ input_file_data' = CopyCells(input_file_data, pos, run.d_in, 0, bytes)
                   /\ pos' = (pos + bytes) % UIntMod
              ELSE LET before == (pos - 1) % UIntMod
                       temp_huffman_tree_node == Peek(input_file_data, before)
                       copied == CopyCells(Load(input_file_data, before), before,
                                           run.d_in, 0, bytes)
                   IN  /\ input_file_data' =
                               Store(copied, before,
                                     ByteOr(temp_huffman_tree_node, Peek(copied, before), 8))
                       /\ pos' = (pos + bytes - 1) % UIntMod
           /\ pc' \in Outcomes("overflow_chunks", {read, run.scratch, input_file_data'})
    /\ kernel_index' = kernel_index + 1
    /\ UNCHANGED <<fileVars, hostVars, memVars, planVars,
                   d_byte_compressed_data_overflow, cuda_error, kernelVars, compressed_file,
                   decVars>>

\* the end of its loop: the buffers are freed
MultipleKernelsWithOverflowEnd ==
    /\ pc = "overflow_chunks"
    /\ kernel_index >= num_kernel_runs
    /\ pc' = "compressed"
    /\ UNCHANGED <<fileVars, input_file_data, hostVars, memVars, planVars, devVars,
                   compressed_file, decVars>>

\* the container: length, frequency table, mem_offset / 8 bytes of the buffer
WriteContainer ==
    /\ pc = "compressed"
    /\ LET read == LoadRange(input_file_data, 0, mem_offset \div 8)
       IN  /\ compressed_file' =
                  [written |-> TRUE, length |-> input_file_length,
                   frequency |-> frequency,
                   data |-> Prefix(input_file_data, mem_offset \div 8)]
           /\ input_file_data' = read
           /\ pc' \in Outcomes("written", {read})
    /\ UNCHANGED <<fileVars, hostVars, memVars, planVars, devVars, decVars>>

(***************************************************************************)
(* main of main_decompress.c.                                              *)
(***************************************************************************)
\* bit number bit (0 = most significant) of a byte
BitOf(byte, bit) == (byte \div (2 ^ (7 - bit))) % 2

\* one bit of the traversal. st = [node, counter, output]
DecodeBit(pool, head, st, current_input_bit) ==
    LET child == IF current_input_bit = 0 THEN pool[st.node].left
                 ELSE pool[st.node].right
        leaf == IF current_input_bit = 0 THEN pool[child].left = NULL
                ELSE pool[child].right = NULL
    IN  IF leaf
        THEN [node |-> head, counter |-> (st.counter + 1) % UIntMod,
              output |-> Store(st.output, st.counter, pool[child].letter)]
        ELSE [st EXCEPT !.node = child]

\* the two loops over the bits of compressed_data, to its very end
RECURSIVE DecodeLoop(_, _, _, _, _, _)
DecodeLoop(pool, head, compressed_data, st, index, bit) ==
    IF index >= Len(compressed_data) THEN st
    ELSE IF bit >= 8 THEN DecodeLoop(pool, head, compressed_data, st, index + 1, 0)
    ELSE LET next == DecodeBit(pool, head, st, BitOf(compressed_data[index + 1], bit))
         IN  CASE Evaluated(next) ->
                  DecodeLoop(pool, head, compressed_data, next, index, bit + 1)

\* the header is read and the tree is rebuilt from the frequency table
DecompressBuildTree ==
    /\ pc = "written"
    /\ LET t == DecompressorTree(compressed_file.frequency)
       IN  /\ dec_huffman_tree_node' = t.pool
           /\ dec_head_huffman_tree_node' = t.head
    /\ pc' = "d_tree"
    /\ UNCHANGED <<fileVars, input_file_data, hostVars, memVars, planVars, devVars,
                   compressed_file, dec_huffman_dictionary, output_data,
                   output_file_length_counter, output_file>>

\* build_huffman_dictionary(head_huffman_tree_node, ...): it reads
\* root->left first, whatever the root is
DecompressBuildDictionary ==
    /\ pc = "d_tree"
    /\ IF dec_head_huffman_tree_node = NULL
       THEN /\ pc' = "crashed"
            /\ UNCHANGED dec_huffman_dictionary
       ELSE /\ pc' = "d_dictionary"
            /\ dec_huffman_dictionary' =
                   serial_build_huffman_dictionary(dec_huffman_tree_node,
                                                   dec_head_huffman_tree_node, << >>,
                                                   EmptyDictionary)
    /\ UNCHANGED <<fileVars, input_file_data, hostVars, memVars, planVars, devVars,
                   compressed_file, dec_huffman_tree_node, dec_head_huffman_tree_node,
                   output_data, output_file_length_counter, output_file>>

\* the output buffer is allocated and the payload is decoded
DecompressDecode ==
    /\ pc = "d_dictionary"
    /\ \E garbage \in ByteValues :
         LET st == DecodeLoop(dec_huffman_tree_node, dec_head_huffman_tree_node,
                              compressed_file.data,
                              [node |-> dec_head_huffman_tree_node, counter |-> 0,
                               output |-> Malloc(compressed_file.length, garbage)],
                              0, 0)
         IN  /\ output_data' = st.output
             /\ output_file_length_counter' = st.counter
             /\ pc' \in Outcomes("d_decoded", {st.output})
    /\ UNCHANGED <<fileVars, input_file_data, hostVars, memVars, planVars, devVars,
                   compressed_file, dec_huffman_tree_node, dec_head_huffman_tree_node,
                   dec_huffman_dictionary, output_file>>

\* fwrite(output_data, 1, output_file_length, output_file)
DecompressWrite ==
    /\ pc = "d_decoded"
    /\ output_file' = [written |-> TRUE,
                       data |-> Prefix(output_data, compressed_file.length)]
    /\ pc' = "d_done"
    /\ UNCHANGED <<fileVars, input_file_data, hostVars, memVars, planVars, devVars,
                   compressed_file, dec_huffman_tree_node, dec_head_huffman_tree_node,
                   dec_huffman_dictionary, output_data, output_file_length_counter>>

Next ==
    \/ CountFrequencies
    \/ BuildTree
    \/ BuildDictionary
    \/ AnalyseMemory
    \/ GenerateOffsetArrays
    \/ GenerateChunkArraysBegin
    \/ GenerateChunkArraysIteration
    \/ GenerateChunkArraysEnd
    \/ InitializeGpuMemory
    \/ HandleSingleKernelNoOverflow
    \/ MultipleKernelsNoOverflowBegin
    \/ MultipleKernelsNoOverflowChunk
    \/ MultipleKernelsNoOverflowEnd
    \/ WriteContainer
    \/ DecompressBuildTree
    \/ DecompressBuildDictionary
    \/ DecompressDecode
    \/ DecompressWrite

Spec == Init /\ [][Next]_vars

(***************************************************************************)
(* The analysis of main_compress.cu on long inputs and large devices: the  *)
(* bit total and the free memory lie on both sides of UINT_MAX.            *)
(***************************************************************************)
\* run lengths of the long inputs; three runs together stay within UINT_MAX
\* bytes, the most an unsigned int input_file_length holds
LongRun == UINT_MAX \div 6

LongRuns == {0, 1, LongRun, 2 * LongRun - 1, 2 * LongRun}

LongInputs ==
    {x \in {Repeat(<<0>>, i) \o Repeat(<<1>>, j) \o Repeat(<<2>>, k) :
                i \in LongRuns, j \in LongRuns, k \in LongRuns} : Len(x) >= 1}

\* free memory above the fixed structures: the least that passes the memory test of main, and
\* figures that put mem_req + LEN_MARGIN on both sides of UINT_MAX
LargeFreeAbove ==
    {MIN_SCRATCH_SIZE, MaxFreeAbove}
        \cup {UINT_MAX - LEN_MARGIN + SAFETY_MARGIN + d : d \in -1 .. 2}

LargeInit ==
    /\ input_file \in LongInputs
    /\ \E above \in LargeFreeAbove :
           mem_free = (MemData(Len(input_file)) + above) % ULongMod
    /\ Loaded

LargeNext ==
    \/ CountFrequencies
    \/ BuildTree
    \/ BuildDictionary
    \/ AnalyseMemory

LargeSpec == LargeInit /\ [][LargeNext]_vars

(***************************************************************************)
(* The whole of the two programs as in Spec, with the inputs and devices   *)
(* at the edge as well: the empty file, and a device with less free memory *)
(* than the fixed structures take.                                         *)
(***************************************************************************)
EdgeFreeAbove == FreeAbove \cup {-1, 0}

EdgeInit ==
    /\ input_file \in Inputs \cup {<< >>}
    /\ \E above \in EdgeFreeAbove :
           mem_free = (MemData(Len(input_file)) + above) % ULongMod
    /\ Loaded

EdgeSpec == EdgeInit /\ [][Next]_vars

(***************************************************************************)
(* The planners alone, on short and on long inputs, on small and on large  *)
(* devices: every overload of create_data_offset_array runs.               *)
(***************************************************************************)
\* free memory above the fixed structures: the figures of the two other
\* specifications, and a device that holds the bits of the longest input
PlanFreeAbove == FreeAbove \cup LargeFreeAbove \cup {2 * UINT_MAX}

PlanInit ==
    /\ input_file \in Inputs \cup LongInputs
    /\ \E above \in PlanFreeAbove :
           mem_free = (MemData(Len(input_file)) + above) % ULongMod
    /\ Loaded

PlanNext ==
    \/ CountFrequencies
    \/ BuildTree
    \/ BuildDictionary
    \/ AnalyseMemory
    \/ GenerateOffsetArrays
    \/ GenerateChunkArraysBegin
    \/ GenerateChunkArraysIteration
    \/ GenerateChunkArraysEnd

PlanSpec == PlanInit /\ [][PlanNext]_vars

(***************************************************************************)
(* The device runtime may fail.  Every call of parallel.cu hands its       *)
(* status to check_cuda_error, which prints it and returns: the caller     *)
(* goes on with its next statement.  The failures modelled are those of    *)
(* the copies back to the host: the kernel has run, the host buffer keeps  *)
(* what it held.                                                           *)
(***************************************************************************)
\* check_cuda_error(error, operation) with error # cudaSuccess
check_cuda_error == cuda_error' = TRUE

\* handle_single_kernel_no_overflow when cudaMemcpyDeviceToHost fails
HandleSingleKernelNoOverflowCopyFails ==
    /\ pc = "gpu_ready"
    /\ num_kernel_runs = 1
    /\ integer_overflow_flag = 0
    /\ LET total == compressed_data_offset[input_file_length]
           run == compress_single(d_input_file_data, compressed_data_offset,
                                  huffman_dictionary, Calloc(total), input_file_length,
                                  huffman_dictionary.const_memory_flag)
       IN  /\ d_input_file_data' = run.d_in
           /\ d_byte_compressed_data' = run.scratch
           /\ pc' \in Outcomes("compressed", {run.d_in, run.scratch})
    /\ check_cuda_error
    /\ kernel_index' = 1
    /\ UNCHANGED <<fileVars, input_file_data, hostVars, memVars, planVars,
                   d_byte_compressed_data_overflow, pos, kernelVars, compressed_file,
                   decVars>>

\* one iteration of the loop of handle_multiple_kernels_no_overflow when its
\* cudaMemcpyDeviceToHost fails: the position advances, the loop goes on
MultipleKernelsNoOverflowChunkCopyFails ==
    /\ pc = "chunks"
    /\ kernel_index < num_kernel_runs
    /\ LET lower == Peek(gpu_memory_overflow_index, kernel_index * 2)
           upper == Peek(gpu_memory_overflow_index, kernel_index * 2 + 1)
           bytes == compressed_data_offset[upper] \div 8
           run == compress_chunk(d_input_file_data, compressed_data_offset,
                                 huffman_dictionary, Memset0(d_byte_compressed_data),
                                 lower, huffman_dictionary.const_memory_flag, upper)
       IN  /\ d_input_file_data' = run.d_in
           /\ d_byte_compressed_data' = run.scratch
           /\ IF Peek(gpu_bit_padding_flag, kernel_index) = 0
              THEN /\ input_file_data' = input_file_data
                   /\ pos' = (pos + bytes) % UIntMod
              ELSE LET before == (pos - 1) % UIntMod
                       temp_comp_byte == Peek(input_file_data, before)
                       looked == Load(input_file_data, before)
                   IN  /\ input_file_data' =
                               Store(looked, before,
                                     ByteOr(temp_comp_byte, Peek(looked, before), 8))
                       /\ pos' = (pos + bytes - 1) % UIntMod
           /\ pc' \in Outcomes("chunks", {run.d_in, run.scratch, input_file_data'})
    /\ check_cuda_error
    /\ kernel_index' = kernel_index + 1
    /\ UNCHANGED <<fileVars, hostVars, memVars, planVars,
                   d_byte_compressed_data_overflow, kernelVars, compressed_file,
                   decVars>>

FaultNext ==
    \/ Next
    \/ HandleSingleKernelNoOverflowCopyFails
    \/ MultipleKernelsNoOverflowChunkCopyFails

FaultSpec == Init /\ [][FaultNext]_vars

(***************************************************************************)
(* The container may reach main_decompress.c cut short: its header is      *)
(* whole, its payload ends early.  The decompressor takes the payload      *)
(* length from the size of the file.                                       *)
(***************************************************************************)
\* the payload the compressor wrote has been cut
Truncated ==
    /\ compressed_file.written
    /\ Len(compressed_file.data) < mem_offset \div 8

\* the file is cut to bytes of payload before the decompressor opens it
TruncateContainer ==
    /\ pc = "written"
    /\ ~Truncated
    /\ \E bytes \in 0 .. (Len(compressed_file.data) - 1) :
           compressed_file' =
               [compressed_file EXCEPT !.data = SubSeq(compressed_file.data, 1, bytes)]
    /\ UNCHANGED <<pc, fileVars, input_file_data, hostVars, memVars, planVars, devVars,
                   decVars>>

TruncNext ==
    \/ Next
    \/ TruncateContainer

TruncSpec == Init /\ [][TruncNext]_vars

(***************************************************************************)
(* The CPU programs: huffman_cpu_compression.cpp and                       *)
(* huffman_cpu_decompression.cpp.  A node is [character, frequency,        *)
(* children]: children is << >> for a leaf (left and right are nullptr)    *)
(* and <<left, right>> otherwise.  The container is original_size and the  *)
(* bytes that follow it.                                                   *)
(***************************************************************************)
MARKER_INTERNAL == 48
MARKER_LEAF == 49
MARKER_END == 42

\* node(character, frequency) and node(f)
node(character, f) == [character |-> character, frequency |-> f, children |-> << >>]

Merged(left, right) == [character |-> 0, frequency |-> left.frequency + right.frequency, children |-> <<left, right>>]

IsLeaf(n) == n.children = << >>

\* struct compare: node_1 comes out of the queue after node_2
compare(node_1, node_2) ==
    IF node_1.frequency = node_2.frequency THEN node_1.character > node_2.character
    ELSE node_1.frequency > node_2.frequency

\* priority_queue.top(): among nodes that compare equal the heap decides
Top(queue) == {n \in queue : \A m \in queue : ~compare(n, m)}

\* the while loop of main over the priority queue: the roots it can end with
RECURSIVE BuildQueue(_)
BuildQueue(queue) ==
    IF Cardinality(queue) <= 1 THEN queue
    ELSE UNION {UNION {BuildQueue(((queue \ {right}) \ {left}) \cup {Merged(left, right)}) :
                           left \in Top(queue \ {right})} :
                    right \in Top(queue)}

RECURSIVE generate_codes(_, _, _)
generate_codes(root, code, codes) ==
    IF IsLeaf(root)
    THEN [codes EXCEPT ![root.character] = IF code = << >> THEN <<0>> ELSE code]
    ELSE generate_codes(root.children[2], code \o <<1>>,
                        generate_codes(root.children[1], code \o <<0>>, codes))

RECURSIVE serialize_tree(_)
serialize_tree(root) ==
    IF IsLeaf(root) THEN <<MARKER_LEAF, root.character>>
    ELSE <<MARKER_INTERNAL>> \o serialize_tree(root.children[1])
                             \o serialize_tree(root.children[2])

\* encoded += codes[character] over the content
RECURSIVE Encoded(_, _, _)
Encoded(content, codes, index) ==
    IF index > Len(content) THEN << >>
    ELSE codes[content[index]] \o Encoded(content, codes, index + 1)

\* bitset<8>(...).to_ulong() of the eight bits from index
ToUlong(encoded, index) ==
    encoded[index] * 128 + encoded[index + 1] * 64 + encoded[index + 2] * 32
    + encoded[index + 3] * 16 + encoded[index + 4] * 8 + encoded[index + 5] * 4
    + encoded[index + 6] * 2 + encoded[index + 7]

\* what main writes after original_size, for the tree with this root
CpuContainer(content, root, distinct) ==
    LET codes == IF distinct = 1 THEN [[b \in ByteValues |-> << >>] EXCEPT ![root.character] = <<0>>]
                 ELSE generate_codes(root, << >>, [b \in ByteValues |-> << >>])
        bits == Encoded(content, codes, 1)
        padding == 8 - (Len(bits) % 8)
        encoded == IF padding # 8 THEN bits \o [i \in 1 .. padding |-> 0] ELSE bits
    IN  serialize_tree(root) \o <<MARKER_END, padding>>
        \o [k \in 1 .. (Len(encoded) \div 8) |-> ToUlong(encoded, 8 * (k - 1) + 1)]

\* main of huffman_cpu_compression.cpp
CpuCompress ==
    /\ pc = "read"
    /\ IF input_file = << >>
       THEN /\ pc' = "exit_failure"
            /\ UNCHANGED compressed_file
       ELSE LET present == {b \in ByteValues : \E i \in 1 .. Len(input_file) : input_file[i] = b}
                leaves == {node(b, Cardinality({i \in 1 .. Len(input_file) : input_file[i] = b})) : b \in present}
            IN  \E root \in BuildQueue(leaves) :
                    /\ compressed_file' =
                           [written |-> TRUE, original_size |-> Len(input_file),
                            data |-> CpuContainer(input_file, root, Cardinality(present))]
                    /\ pc' = "cpu_written"
    /\ UNCHANGED <<fileVars, input_file_data, hostVars, memVars, planVars, devVars, decVars>>

\* a node of the decompressor, and nullptr
NullNode == [null |-> TRUE, character |-> 0, children |-> << >>]

\* deserialize_tree: the node (or nullptr) and the position of the stream
RECURSIVE deserialize_tree(_, _)
deserialize_tree(in, at) ==
    IF at > Len(in) THEN [node |-> NullNode, at |-> at]
    ELSE IF in[at] = MARKER_LEAF
    THEN IF at + 1 > Len(in) THEN [node |-> NullNode, at |-> at + 1]
         ELSE [node |-> [null |-> FALSE, character |-> in[at + 1], children |-> << >>],
               at |-> at + 2]
    ELSE IF in[at] = MARKER_INTERNAL
    THEN LET left == deserialize_tree(in, at + 1)
             right == deserialize_tree(in, left.at)
         IN  IF left.node.null \/ right.node.null THEN [node |-> NullNode, at |-> right.at]
             ELSE [node |-> [null |-> FALSE, character |-> 0,
                             children |-> <<left.node, right.node>>],
                   at |-> right.at]
    ELSE [node |-> NullNode, at |-> at + 1]

\* while (in_file.get(marker) && marker != '*'): the position after it
RECURSIVE SkipToEnd(_, _)
SkipToEnd(in, at) ==
    IF at > Len(in) THEN at
    ELSE IF in[at] = MARKER_END THEN at + 1
    ELSE SkipToEnd(in, at + 1)

\* bitset<8>(byte).to_string() of the bytes from at on
RECURSIVE BitString(_, _)
BitString(in, at) ==
    IF at > Len(in) THEN << >>
    ELSE [j \in 1 .. 8 |-> BitOf(in[at], j - 1)] \o BitString(in, at + 1)

\* the decoding loop. st = [current, decoded, crashed]: current->left of a
\* leaf is nullptr, and the test that follows dereferences it
RECURSIVE CpuDecodeLoop(_, _, _, _, _)
CpuDecodeLoop(root, bit_string, original_size, st, index) ==
    IF index > Len(bit_string) \/ st.crashed THEN st
    ELSE IF Len(st.decoded) >= original_size THEN st
    ELSE IF IsLeaf(st.current) THEN [st EXCEPT !.crashed = TRUE]
    ELSE LET current == IF bit_string[index] = 0 THEN st.current.children[1]
                        ELSE st.current.children[2]
             next == IF IsLeaf(current)
                     THEN [current |-> root, decoded |-> Append(st.decoded, current.character),
                           crashed |-> FALSE]
                     ELSE [st EXCEPT !.current = current]
         IN  CASE Evaluated(next) ->
                  CpuDecodeLoop(root, bit_string, original_size, next, index + 1)

\* main of huffman_cpu_decompression.cpp
CpuDecompress ==
    /\ pc = "cpu_written"
    /\ LET in == compressed_file.data
           original_size == compressed_file.original_size
           tree == deserialize_tree(in, 1)
           root == tree.node
           after == SkipToEnd(in, tree.at)
           padding == IF after > Len(in) THEN -1 ELSE in[after]
           bits == BitString(in, after + 1)
           bit_string == IF padding # 8 /\ bits # << >> /\ Len(bits) >= padding /\ padding >= 0
                         THEN SubSeq(bits, 1, Len(bits) - padding) ELSE bits
           st == CpuDecodeLoop(root, bit_string, original_size,
                               [current |-> root, decoded |-> << >>, crashed |-> FALSE], 1)
           decoded == IF st.decoded = << >> /\ original_size > 0
                      THEN [i \in 1 .. original_size |-> root.character] ELSE st.decoded
       IN  IF root.null
           THEN /\ pc' = "exit_failure"
                /\ UNCHANGED output_file
           ELSE IF st.crashed
           THEN /\ pc' = "crashed"
                /\ UNCHANGED output_file
           ELSE /\ pc' = "cpu_done"
                /\ output_file' = [written |-> TRUE, data |-> decoded]
    /\ UNCHANGED <<fileVars, input_file_data, hostVars, memVars, planVars, devVars,
                   compressed_file, dec_huffman_tree_node, dec_head_huffman_tree_node,
                   dec_huffman_dictionary, output_data, output_file_length_counter>>

CpuInit ==
    /\ input_file \in Inputs \cup {<< >>}
    /\ mem_free = 0
    /\ Loaded

CpuNext ==
    \/ CpuCompress
    \/ CpuDecompress

CpuSpec == CpuInit /\ [][CpuNext]_vars

(***************************************************************************)
(* The kernels thread by thread.  A launch is one block of BLOCK_SIZE      *)
(* threads; a thread runs the iterations of its stride loops one at a      *)
(* time, waits at __syncthreads(), and runs its packing loops.  The writes *)
(* of the launch are recorded; the buffers themselves are brought up to    *)
(* date when the kernel ends.                                              *)
(***************************************************************************)
Threads == 0 .. (BLOCK_SIZE - 1)

\* the values of the index of a stride loop: first, first + step, ... < limit
RECURSIVE Stride(_, _, _)
Stride(first, limit, step) ==
    IF first >= limit THEN << >>
    ELSE <<first>> \o Stride(first + step, limit, step)

\* the byte of the input a thread reads, and its code length
LetterAt(index) == Peek(d_input_file_data, index)

LengthAt(index) == huffman_dictionary.bit_sequence_length[LetterAt(index)]

\* a faulty stride loop: it encodes the byte at index, whatever the shift
LoopItemsUnshifted(t, buffer, base, limit, shift) ==
    LET indices == Stride(base + t, limit, BLOCK_SIZE)
    IN  [k \in 1 .. Len(indices) |->
            [kind |-> "loop", buffer |-> buffer, index |-> indices[k],
             bits_of |-> indices[k], at |-> compressed_data_offset[indices[k]]]]

\* the iterations of for (index = base + pos; index < limit; index +=
\* blockDim.x) that encode the byte at index + shift into a scratch buffer
LoopItems(t, buffer, base, limit, shift) ==
    LET indices == Stride(base + t, limit, BLOCK_SIZE)
    IN  [k \in 1 .. Len(indices) |->
            [kind |-> "loop", buffer |-> buffer, index |-> indices[k] + shift,
             bits_of |-> indices[k] + shift,
             at |-> compressed_data_offset[indices[k] + shift]]]

\* the second loop of the constant-memory path of the chunk kernel with
\* overflow
MixedItems(t, base, limit) ==
    LET indices == Stride(base + t, limit, BLOCK_SIZE)
    IN  [k \in 1 .. Len(indices) |->
            [kind |-> "loop", buffer |-> 1, index |-> indices[k] + 1,
             bits_of |-> indices[k], at |-> compressed_data_offset[indices[k]]]]

\* a faulty memcpy: the code of the boundary byte starts at the offset of
\* next
MemcpyAtNext(buffer, boundary, next) ==
    [kind |-> "memcpy", buffer |-> buffer, index |-> boundary, bits_of |-> boundary,
     at |-> compressed_data_offset[next]]

\* thread 0's memcpy of the code of the byte at boundary, ending at the
\* offset of next
MemcpyItem(buffer, boundary, next) ==
    [kind |-> "memcpy", buffer |-> buffer, index |-> boundary, bits_of |-> boundary,
     at |-> (compressed_data_offset[next] - LengthAt(boundary)) % UIntMod]

\* what thread t does before the barrier, in program order
Phase1(l, t) ==
    LET flag == huffman_dictionary.const_memory_flag
        at_overflow == IF t = 0
                       THEN <<MemcpyItem(2, l.overflow_position, l.overflow_position + 1)>>
                       ELSE << >>
        at_lower == IF t = 0 /\ l.lower # 0
                    THEN <<MemcpyItem(1, l.lower - 1, l.lower)>> ELSE << >>
    IN  CASE l.variant = "single" -> LoopItems(t, 1, 0, l.upper, 0)
          [] l.variant = "single_overflow" ->
                 LoopItems(t, 1, 0, l.overflow_position, 0)
                 \o LoopItems(t, 2, l.overflow_position, (l.upper - 1) % UIntMod, 1)
                 \o at_overflow
          [] l.variant = "chunk" -> LoopItems(t, 1, l.lower, l.upper, 0) \o at_lower
          [] l.variant = "chunk_overflow" ->
                 (IF flag = 0
                  THEN LoopItems(t, 1, l.lower, l.overflow_position, 0)
                       \o LoopItems(t, 2, l.overflow_position, (l.upper - 1) % UIntMod, 1)
                  ELSE LoopItems(t, 1, l.lower, l.upper, 0)
                       \o MixedItems(t, l.overflow_position, (l.upper - 1) % UIntMod))
                 \o at_overflow \o at_lower
          [] OTHER -> << >>

\* the writes of one iteration: one scratch byte per bit of the code
ItemWrites(item, t) ==
    LET flag == huffman_dictionary.const_memory_flag
        letter == LetterAt(item.bits_of)
    IN  {[buffer |-> item.buffer, position |-> (item.at + j) % UIntMod,
          index |-> item.index, kind |-> item.kind, thread |-> t, bit_index |-> j,
          value |-> IF item.kind = "loop" THEN CodeBit(huffman_dictionary, letter, j, flag)
                    ELSE IF flag = 0 THEN FastBit(huffman_dictionary, letter, j)
                    ELSE ConstBit(huffman_dictionary, letter, j)] :
            j \in 0 .. (LengthAt(item.index) - 1)}

\* the iterations of for (index = pos * 8; index < limit; index +=
\* blockDim.x * 8): the output byte each one shifts the eight bits into
PackItems(t, limit, byte_offset, from) ==
    LET indices == Stride(t * 8, limit, BLOCK_SIZE * 8)
    IN  [k \in 1 .. Len(indices) |->
            [byte |-> (indices[k] \div 8) + byte_offset, from |-> from, thread |-> t]]

\* what thread t does after the barrier
Phase2(l, t) ==
    IF l.variant \in {"single", "chunk"}
    THEN PackItems(t, compressed_data_offset[l.upper], 0, 1)
    ELSE PackItems(t, compressed_data_offset[l.overflow_position], 0, 1)
         \o PackItems(t, compressed_data_offset[l.upper],
                      compressed_data_offset[l.overflow_position] \div 8, 2)

\* the launch the handlers make next: its kernel and arguments
NextLaunch ==
    IF num_kernel_runs = 1
    THEN IF integer_overflow_flag = 0
         THEN [variant |-> "single", lower |-> 0, upper |-> input_file_length,
               overflow_position |-> 0]
         ELSE [variant |-> "single_overflow", lower |-> 0, upper |-> input_file_length,
               overflow_position |-> Peek(integer_overflow_index, 0)]
    ELSE IF integer_overflow_flag = 0 \/ Peek(integer_overflow_index, kernel_index) = 0
         THEN [variant |-> "chunk",
               lower |-> Peek(gpu_memory_overflow_index, kernel_index * 2),
               upper |-> Peek(gpu_memory_overflow_index, kernel_index * 2 + 1),
               overflow_position |-> 0]
         ELSE [variant |-> "chunk_overflow",
               lower |-> Peek(gpu_memory_overflow_index, kernel_index * 2),
               upper |-> Peek(gpu_memory_overflow_index, kernel_index * 2 + 1),
               overflow_position |-> Peek(integer_overflow_index, kernel_index)]

\* the kernel reads the input and the offsets inside their arrays, and its
\* packing loops end
WellFormed(l) ==
    /\ l.lower <= input_file_length
    /\ l.upper <= input_file_length
    /\ l.overflow_position < input_file_length
    /\ l.upper >= 1
    /\ \A i \in {l.upper, l.overflow_position} :
           compressed_data_offset[i] + BLOCK_SIZE * 8 <= UIntMod

\* compress<<<1, BLOCK_SIZE>>>(...)
KernelLaunch ==
    /\ pc = "gpu_ready"
    /\ kernel_index < num_kernel_runs
    /\ IF WellFormed(NextLaunch)
       THEN /\ launch' = NextLaunch
            /\ thread' = [t \in Threads |-> [phase |-> "encode", step |-> 0]]
            /\ pc' = "kernel"
       ELSE /\ pc' = "crashed"
            /\ UNCHANGED <<launch, thread>>
    /\ scratch_writes' = {}
    /\ output_writes' = {}
    /\ UNCHANGED <<fileVars, input_file_data, hostVars, memVars, planVars,
                   d_input_file_data, d_byte_compressed_data,
                   d_byte_compressed_data_overflow, pos, kernel_index, cuda_error,
                   compressed_file, decVars>>

\* one iteration of a thread's loops before the barrier
ThreadEncode(t) ==
    /\ pc = "kernel"
    /\ thread[t].phase = "encode"
    /\ thread[t].step < Len(Phase1(launch, t))
    /\ scratch_writes' =
           scratch_writes \cup ItemWrites(Phase1(launch, t)[thread[t].step + 1], t)
    /\ thread' = [thread EXCEPT ![t].step = @ + 1]
    /\ UNCHANGED <<pc, fileVars, input_file_data, hostVars, memVars, planVars,
                   d_input_file_data, d_byte_compressed_data,
                   d_byte_compressed_data_overflow, pos, kernel_index, cuda_error,
                   launch, output_writes, compressed_file, decVars>>

\* a thread reaches __syncthreads()
ThreadArrive(t) ==
    /\ pc = "kernel"
    /\ thread[t].phase = "encode"
    /\ thread[t].step >= Len(Phase1(launch, t))
    /\ thread' = [thread EXCEPT ![t] = [phase |-> "barrier", step |-> 0]]
    /\ UNCHANGED <<pc, fileVars, input_file_data, hostVars, memVars, planVars,
                   d_input_file_data, d_byte_compressed_data,
                   d_byte_compressed_data_overflow, pos, kernel_index, cuda_error,
                   launch, scratch_writes, output_writes, compressed_file, decVars>>

\* a faulty barrier: a thread goes on without waiting for the others
SyncthreadsAlone ==
    /\ pc = "kernel"
    /\ \E t \in Threads : thread[t].phase = "barrier"
    /\ thread' = [t \in Threads |->
                     IF thread[t].phase = "barrier" THEN [phase |-> "pack", step |-> 0]
                     ELSE thread[t]]
    /\ UNCHANGED <<pc, fileVars, input_file_data, hostVars, memVars, planVars,
                   d_input_file_data, d_byte_compressed_data,
                   d_byte_compressed_data_overflow, pos, kernel_index, cuda_error,
                   launch, scratch_writes, output_writes, compressed_file, decVars>>

\* __syncthreads(): every thread of the block has arrived
Syncthreads ==
    /\ pc = "kernel"
    /\ \A t \in Threads : thread[t].phase = "barrier"
    /\ thread' = [t \in Threads |-> [phase |-> "pack", step |-> 0]]
    /\ UNCHANGED <<pc, fileVars, input_file_data, hostVars, memVars, planVars,
                   d_input_file_data, d_byte_compressed_data,
                   d_byte_compressed_data_overflow, pos, kernel_index, cuda_error,
                   launch, scratch_writes, output_writes, compressed_file, decVars>>

\* one iteration of a thread's packing loops
ThreadPack(t) ==
    /\ pc = "kernel"
    /\ thread[t].phase = "pack"
    /\ thread[t].step < Len(Phase2(launch, t))
    /\ output_writes' = output_writes \cup {Phase2(launch, t)[thread[t].step + 1]}
    /\ thread' = [thread EXCEPT ![t].step = @ + 1]
    /\ UNCHANGED <<pc, fileVars, input_file_data, hostVars, memVars, planVars,
                   d_input_file_data, d_byte_compressed_data,
                   d_byte_compressed_data_overflow, pos, kernel_index, cuda_error,
                   launch, scratch_writes, compressed_file, decVars>>

\* a thread returns from the kernel
ThreadReturn(t) ==
    /\ pc = "kernel"
    /\ thread[t].phase = "pack"
    /\ thread[t].step >= Len(Phase2(launch, t))
    /\ thread' = [thread EXCEPT ![t] = [phase |-> "done", step |-> 0]]
    /\ UNCHANGED <<pc, fileVars, input_file_data, hostVars, memVars, planVars,
                   d_input_file_data, d_byte_compressed_data,
                   d_byte_compressed_data_overflow, pos, kernel_index, cuda_error,
                   launch, scratch_writes, output_writes, compressed_file, decVars>>

\* the buffers after the kernel
KernelResult(l) ==
    LET flag == huffman_dictionary.const_memory_flag
        off == compressed_data_offset
        zeroed == Calloc(UIntMod)
    IN  CASE l.variant = "single" ->
                 compress_single(d_input_file_data, off, huffman_dictionary, zeroed,
                                 l.upper, flag).d_in
          [] l.variant = "single_overflow" ->
                 compress_single_overflow(d_input_file_data, off, huffman_dictionary, zeroed,
                                          zeroed, l.upper, flag, l.overflow_position).d_in
          [] l.variant = "chunk" ->
                 compress_chunk(d_input_file_data, off, huffman_dictionary, zeroed, l.lower,
                                flag, l.upper).d_in
          [] OTHER ->
                 compress_chunk_overflow(d_input_file_data, off, huffman_dictionary, zeroed,
                                         zeroed, l.lower, flag, l.upper,
                                         l.overflow_position).d_in

\* the kernel has ended: the handler goes on to its next launch
KernelEnd ==
    /\ pc = "kernel"
    /\ \A t \in Threads : thread[t].phase = "done"
    /\ d_input_file_data' = KernelResult(launch)
    /\ kernel_index' = kernel_index + 1
    /\ pc' = "gpu_ready"
    /\ UNCHANGED <<fileVars, input_file_data, hostVars, memVars, planVars,
                   d_byte_compressed_data, d_byte_compressed_data_overflow, pos,
                   cuda_error, kernelVars, compressed_file, decVars>>

\* inputs for the four kernels: short ones, runs that make several chunks,
\* runs long enough for the offsets to overflow once, one of
\* UINT_MAX bytes whose offsets overflow twice, the second time on a byte
\* boundary, and one that takes two chunks, the first with an overflow
KernelInputs ==
    {x \in Strings(1, 2)
           \cup {Repeat(<<0>>, i) \o Repeat(<<1>>, j) \o Repeat(<<2>>, k) :
                     i \in {0, MaxRun}, j \in {0, MaxRun}, k \in {0, MaxRun}}
           \cup {Repeat(<<0>>, i) \o Repeat(<<1>>, j) \o Repeat(<<2>>, k) :
                     i \in {0, 2 * LongRun}, j \in {LongRun, 2 * LongRun},
                     k \in {2 * LongRun}}
           \cup {Repeat(<<0>>, 2 * LongRun) \o Repeat(<<1>>, LongRun \div 2 + 1)
                      \o Repeat(<<2>>, 2 * LongRun)
                      \o Repeat(<<1>>, 2 * LongRun - (LongRun \div 2 + 1))
                      \o Repeat(<<2>>, UINT_MAX - 6 * LongRun)}
           \cup {Repeat(<<0>>, 2 * LongRun - 1) \o Repeat(<<1>>, 2 * LongRun - 1)
                      \o <<2>>} :
        Len(x) \in 1 .. UINT_MAX}

\* free memory above the fixed structures: a budget of a few bytes, one
\* just under UINT_MAX and one above the longest payload
KernelFreeAbove ==
    {MIN_SCRATCH_SIZE, UINT_MAX - LEN_MARGIN + SAFETY_MARGIN + 1, 2 * UINT_MAX}

KernelInit ==
    /\ input_file \in KernelInputs
    /\ \E above \in KernelFreeAbove :
           mem_free = (MemData(Len(input_file)) + above) % ULongMod
    /\ Loaded

KernelNext ==
    \/ PlanNext
    \/ InitializeGpuMemory
    \/ KernelLaunch
    \/ \E t \in Threads : ThreadEncode(t)
    \/ \E t \in Threads : ThreadArrive(t)
    \/ Syncthreads
    \/ \E t \in Threads : ThreadPack(t)
    \/ \E t \in Threads : ThreadReturn(t)
    \/ KernelEnd

KernelSpec == KernelInit /\ [][KernelNext]_vars

(***************************************************************************)
(* The compressor with the four handlers of launch_cuda_huffman_compress,  *)
(* on the inputs and devices of the kernels: runs of one and of several    *)
(* kernels, with and without overflow.                                     *)
(***************************************************************************)
HandlerNext ==
    \/ PlanNext
    \/ InitializeGpuMemory
    \/ HandleSingleKernelNoOverflow
    \/ MultipleKernelsNoOverflowBegin
    \/ MultipleKernelsNoOverflowChunk
    \/ MultipleKernelsNoOverflowEnd
    \/ HandleSingleKernelWithOverflow
    \/ MultipleKernelsWithOverflowBegin
    \/ MultipleKernelsWithOverflowChunkOverflow
    \/ MultipleKernelsWithOverflowChunkPlain
    \/ MultipleKernelsWithOverflowEnd
    \/ WriteContainer

\* free memory above the fixed structures: the figures of the kernels, and
\* one that leaves a budget of one bit more than a multiple of 8
HandlerFreeAbove == KernelFreeAbove \cup {2 * 8 + 1 + SAFETY_MARGIN}

HandlerInit ==
    /\ input_file \in KernelInputs
    /\ \E above \in HandlerFreeAbove :
           mem_free = (MemData(Len(input_file)) + above) % ULongMod
    /\ Loaded

HandlerSpec == HandlerInit /\ [][HandlerNext]_vars

(***************************************************************************)
(* The sorts alone, and the two tree constructions built on them: the pool *)
(* holds any counts and any range of it is sorted, by the insertion sort   *)
(* of parallel.cu in the compressor's pool and by the bubble sort of       *)
(* serial_utilities.c in the decompressor's.                               *)
(***************************************************************************)
\* pools whose nodes carry their slot as letter, with any counts
SortPools ==
    {[s \in 0 .. (PoolSize - 1) |->
         [letter |-> s, count |-> counts[s], left |-> NULL, right |-> NULL]] :
        counts \in [0 .. (PoolSize - 1) -> ByteValues]}

SortInit ==
    /\ pc = "pool"
    /\ input_file = << >>
    /\ mem_free = 0
    /\ \/ /\ huffman_tree_node \in SortPools
          /\ frequency = ZeroFrequency
          /\ distinct_character_count \in 1 .. NumByteValues
       \/ /\ huffman_tree_node = EmptyPool
          /\ frequency \in [ByteValues -> 0 .. MaxShort] \ {ZeroFrequency}
          /\ distinct_character_count = 0
    /\ dec_huffman_tree_node = huffman_tree_node
    /\ input_file_data = BlockOf(input_file)
    /\ input_file_length = Len(input_file)
    /\ head_huffman_tree_node = NULL
    /\ huffman_dictionary = EmptyDictionary
    /\ mem_offset = 0
    /\ mem_req = 0
    /\ num_kernel_runs = 0
    /\ integer_overflow_flag = 0
    /\ compressed_data_offset = ZeroOffsets(0)
    /\ gpu_memory_overflow_index = NoBlock
    /\ gpu_bit_padding_flag = NoBlock
    /\ integer_overflow_index = NoBlock
    /\ bit_padding_flag = NoBlock
    /\ plan_index = 0
    /\ plan_sub_index = 0
    /\ d_input_file_data = NoBlock
    /\ d_byte_compressed_data = NoBlock
    /\ d_byte_compressed_data_overflow = NoBlock
    /\ pos = 0
    /\ kernel_index = 0
    /\ cuda_error = FALSE
    /\ launch = NoLaunch
    /\ thread = NoThreads
    /\ scratch_writes = {}
    /\ output_writes = {}
    /\ compressed_file = NoFile
    /\ dec_head_huffman_tree_node = NULL
    /\ dec_huffman_dictionary = EmptyDictionary
    /\ output_data = NoBlock
    /\ output_file_length_counter = 0
    /\ output_file = NoFile

\* one call of sort_huffman_tree in each program, on the same range
SortBoth ==
    /\ pc = "pool"
    /\ frequency = ZeroFrequency
    /\ \E index \in 0 .. (NumByteValues - 1), combined \in 0 .. (PoolSize - 1) :
           /\ huffman_tree_node' =
                  sort_huffman_tree(huffman_tree_node, index, distinct_character_count,
                                    combined)
           /\ dec_huffman_tree_node' =
                  serial_sort_huffman_tree(dec_huffman_tree_node, index,
                                           distinct_character_count, combined)
    /\ pc' = "sorted"
    /\ UNCHANGED <<fileVars, input_file_data, input_file_length, frequency,
                   head_huffman_tree_node, distinct_character_count, huffman_dictionary,
                   memVars, planVars, devVars, compressed_file,
                   dec_head_huffman_tree_node, dec_huffman_dictionary, output_data,
                   output_file_length_counter, output_file>>

\* the tree construction of each program, from the same frequency table
BuildBoth ==
    /\ pc = "pool"
    /\ frequency # ZeroFrequency
    /\ huffman_tree_node' = CompressorTree(frequency).pool
    /\ distinct_character_count' = CompressorTree(frequency).distinct_character_count
    /\ dec_huffman_tree_node' = DecompressorTree(frequency).pool
    /\ pc' = "built"
    /\ UNCHANGED <<fileVars, input_file_data, input_file_length, frequency,
                   head_huffman_tree_node, huffman_dictionary, memVars, planVars, devVars,
                   compressed_file, dec_head_huffman_tree_node, dec_huffman_dictionary,
                   output_data, output_file_length_counter, output_file>>

SortNext ==
    \/ SortBoth
    \/ BuildBoth

SortSpec == SortInit /\ [][SortNext]_vars

(***************************************************************************)
(* The properties.                                                         *)
(***************************************************************************)
\* the code of a byte, as the compressor's code-book holds it
Code(b) == huffman_dictionary.bit_sequence[b]

Present(b) == frequency[b] > 0

\* the sum over the input positions 1 .. i of the code lengths
RECURSIVE BitsUpTo(_)
BitsUpTo(i) ==
    IF i = 0 THEN 0
    ELSE BitsUpTo(i - 1) + huffman_dictionary.bit_sequence_length[input_file[i]]

\* the sum over the byte values of count times length, in unbounded integers
RECURSIVE BitsOfHistogram(_)
BitsOfHistogram(b) ==
    IF b = NumByteValues THEN 0
    ELSE frequency[b] * huffman_dictionary.bit_sequence_length[b] + BitsOfHistogram(b + 1)

SingleValued == \A i \in 1 .. Len(input_file) : input_file[i] = input_file[1]

IsPrefix(s, t) == Len(s) <= Len(t) /\ SubSeq(t, 1, Len(s)) = s

DictionaryBuilt == pc \notin {"read", "counted", "tree"}

ChunkScenario == num_kernel_runs > 1 /\ integer_overflow_flag = 0

\* the payload of the single-run, no-overflow path for the input and the
\* code-book of the state
SingleRunPayload ==
    LET off == create_data_offset_array_simple(huffman_dictionary, input_file,
                                               Len(input_file))
        total == off[Len(input_file)]
        run == compress_single(BlockOf(input_file), off, huffman_dictionary,
                               Calloc(total), Len(input_file),
                               huffman_dictionary.const_memory_flag)
    IN  Prefix(run.d_in, total \div 8)

\* C1: for every input of at least one byte, compressing and then
\* decompressing gives the input back: no run crashes, and a run that the
\* decompressor finishes has written exactly the input.
C1_RoundTrip ==
    /\ pc # "crashed"
    /\ pc = "d_done" => output_file.data = input_file

\* C2: the decompressor stops after N bytes: its output counter never
\* exceeds the container's length field and no write lands at an output
\* index >= N.
C2_StopsAfterN ==
    compressed_file.written =>
        /\ output_file_length_counter <= compressed_file.length
        /\ output_data.oob = {}

\* C3: for an input whose bytes all have the value b, the code-book has
\* len[b] = 1 with code <<0>>, the payload is ceil(N / 8) zero bytes, and the
\* decompressor reproduces the N copies of b.
C3_SingleByteValue ==
    SingleValued =>
        /\ DictionaryBuilt =>
              /\ huffman_dictionary.bit_sequence_length[input_file[1]] = 1
              /\ Code(input_file[1]) = <<0>>
        /\ compressed_file.written =>
              compressed_file.data = [i \in 1 .. ((Len(input_file) + 7) \div 8) |-> 0]
        /\ pc = "d_done" => output_file.data = input_file
        /\ pc # "crashed"

\* C4: the payload written is the same bytes whichever scenario ran: it is
\* the payload of the single-run, no-overflow path.
C4_SamePayload ==
    compressed_file.written => compressed_file.data = SingleRunPayload

\* C5: the tree the decompressor rebuilds from the frequency table has the
\* same root and gives the same leaf-to-code mapping as the compressor's.
C5_TreeAgreement ==
    pc = "d_tree" =>
        /\ dec_head_huffman_tree_node = head_huffman_tree_node
        /\ dec_head_huffman_tree_node # NULL =>
              LET rebuilt == serial_build_huffman_dictionary(dec_huffman_tree_node,
                                 dec_head_huffman_tree_node, << >>, EmptyDictionary)
              IN  /\ rebuilt.bit_sequence = huffman_dictionary.bit_sequence
                  /\ rebuilt.bit_sequence_length = huffman_dictionary.bit_sequence_length

\* C6: with at least two distinct bytes in the input the codes form a
\* prefix code: the code of one present byte is never a prefix of the code of
\* another.
C6_PrefixCode ==
    (DictionaryBuilt /\ distinct_character_count >= 2) =>
        \A b1 \in ByteValues, b2 \in ByteValues :
            (b1 # b2 /\ Present(b1) /\ Present(b2)) => ~IsPrefix(Code(b1), Code(b2))

C6_Witness ==
    /\ pc = "dictionary"
    /\ distinct_character_count = NumByteValues
    /\ \E b1 \in ByteValues, b2 \in ByteValues : Len(Code(b1)) < Len(Code(b2))

\* C7: the bit total computed from the histogram equals the sum of the code
\* lengths over the input positions, and the payload written is that total
\* rounded up to a multiple of 8, divided by 8, bytes long.
C7_BitTotal ==
    /\ DictionaryBuilt =>
          /\ SumBits(frequency, huffman_dictionary, 0, 0) = BitsUpTo(Len(input_file))
          /\ BitsOfHistogram(0) = BitsUpTo(Len(input_file))
    /\ compressed_file.written =>
          Len(compressed_file.data) * 8 = RoundUp8(BitsUpTo(Len(input_file)))

C7_Witness ==
    /\ compressed_file.written
    /\ distinct_character_count >= 2
    /\ BitsUpTo(Len(input_file)) % 8 # 0
    /\ Len(compressed_file.data) >= 2

C9_ExactlyKChunks ==
    (pc = "planned" /\ ChunkScenario) =>
        /\ plan_sub_index + 1 = num_kernel_runs
        /\ Peek(gpu_memory_overflow_index, 0) = 0
        /\ Peek(gpu_memory_overflow_index, 2 * num_kernel_runs - 1) = input_file_length
        /\ gpu_memory_overflow_index.oob = {}
        /\ gpu_bit_padding_flag.oob = {}

\* C10: when the planner records a chunk boundary at a byte, the offset it
\* stores for that byte is a multiple of 8, and the padding flag of the
\* following chunk becomes 1 exactly when the offset was not a multiple of 8
\* before the rounding; once planned, the offset stored at every chunk end,
\* the last one included, is a multiple of 8.
C10_BoundaryRounded ==
    /\ [](pc = "planned" /\ ChunkScenario =>
            \A j \in 0 .. plan_sub_index :
                compressed_data_offset[Peek(gpu_memory_overflow_index, 2 * j + 1)] % 8 = 0)
    /\ [][(pc = "planning" /\ plan_sub_index' = plan_sub_index + 1) =>
            /\ Peek(gpu_memory_overflow_index', 2 * plan_sub_index + 1) = plan_index
            /\ compressed_data_offset'[plan_index] % 8 = 0
            /\ Peek(gpu_bit_padding_flag', plan_sub_index + 1) = 1
                   <=> compressed_data_offset[plan_index] % 8 # 0]_vars

C10_Witness ==
    /\ pc = "planned"
    /\ ChunkScenario
    /\ plan_sub_index >= 1
    /\ Peek(gpu_bit_padding_flag, 1) = 1
    /\ compressed_data_offset[Peek(gpu_memory_overflow_index, 1)] > 0


\* the indices at which planner (b) or (d) recorded an overflow restart
OverflowPoints ==
    {v \in {Peek(integer_overflow_index, j) :
                j \in (0 .. (integer_overflow_index.size - 1))
                        \cup DOMAIN integer_overflow_index.beyond} : v # 0}

\* the indices at which planner (c) or (d) closed a chunk before the last:
\* the byte before each recorded chunk start
ChunkPoints ==
    {Peek(gpu_memory_overflow_index, j) - 1 :
        j \in {k \in (0 .. (gpu_memory_overflow_index.size - 1))
                      \cup DOMAIN gpu_memory_overflow_index.beyond :
                  k % 2 = 0 /\ k >= 2 /\ Peek(gpu_memory_overflow_index, k) # 0}}

Boundaries == OverflowPoints \cup ChunkPoints

C12_InsufficientMemoryExits ==
    (Len(input_file) >= 1
     /\ mem_free < MemData(Len(input_file)) + MIN_SCRATCH_SIZE) =>
        pc \in {"read", "counted", "tree", "dictionary", "exit_failure"}

\* C14: an empty input is rejected before the core runs: the tree builder,
\* the code-book generator, the planner and the kernels are not invoked and
\* no container is written.
C14_EmptyRejected ==
    Len(input_file) = 0 =>
        /\ pc \in {"read", "counted", "exit_failure"}
        /\ ~compressed_file.written

\* C13: once the device runtime has reported a failure for an allocation, a
\* copy or a kernel launch, the operation aborts: the container is not
\* written.
C13_FailureAborts == cuda_error => ~compressed_file.written

\* C15: when the payload of a truncated container is exhausted before N
\* symbols are decoded, the decompressor writes only the bytes it decoded,
\* not N.
C15_TruncatedWritesDecoded ==
    (pc = "d_done" /\ Truncated /\ output_file_length_counter < compressed_file.length)
        => Len(output_file.data) = output_file_length_counter

\* the number of bytes of the input that have value b
CountOf(b) == Cardinality({i \in 1 .. Len(input_file) : input_file[i] = b})

\* the input has the two values a and b only, and a is the one that sorts
\* first: the smaller count, on a tie the smaller value
TwoValued(a, b) ==
    /\ a # b
    /\ CountOf(a) > 0
    /\ CountOf(b) > 0
    /\ CountOf(a) + CountOf(b) = Len(input_file)
    /\ CountOf(a) < CountOf(b) \/ (CountOf(a) = CountOf(b) /\ a < b)

\* byte k of the bits 0 for a and 1 for anything else, most significant bit
\* first, zeros after the last
PackedByte(a, k) ==
    LET Bit(j) == IF 8 * k + j + 1 <= Len(input_file) /\ input_file[8 * k + j + 1] # a
                  THEN 1 ELSE 0
    IN  Bit(0) * 128 + Bit(1) * 64 + Bit(2) * 32 + Bit(3) * 16
        + Bit(4) * 8 + Bit(5) * 4 + Bit(6) * 2 + Bit(7)

PackedPayload(a) == [k \in 1 .. ((Len(input_file) + 7) \div 8) |-> PackedByte(a, k - 1)]

\* C16: for an input with exactly two distinct byte values the one that
\* sorts first gets code 0 and the other code 1, and the payload is these
\* bits packed most significant bit first with zero padding ("ab" gives 0x40).
C16_TwoValues ==
    \A a, b \in ByteValues :
        TwoValued(a, b) =>
            /\ DictionaryBuilt /\ pc # "exit_failure" => Code(a) = <<0>> /\ Code(b) = <<1>>
            /\ compressed_file.written => compressed_file.data = PackedPayload(a)

\* C17: for every non-empty input, also one with a single distinct byte
\* value, the CPU decompressor applied to the CPU compressor's output
\* reconstructs the input: it does not crash or fail, and what it writes is
\* the input.
C17_CpuRoundTrip ==
    /\ (input_file # << >> /\ compressed_file.written) => pc \in {"cpu_written", "cpu_done"}
    /\ pc = "cpu_done" => output_file.data = input_file

\* C18: in phase 1 of every kernel no two writes for distinct input bytes
\* target the same position of the same scratch buffer.
C18_Phase1Disjoint ==
    \A w1 \in scratch_writes : \A w2 \in scratch_writes :
        (w1.buffer = w2.buffer /\ w1.position = w2.position) => w1.index = w2.index

\* C19: no thread is in its packing phase while another is still in phase
\* 1, and distinct threads pack distinct output bytes.
C19_BarrierAndPack ==
    /\ \A t \in Threads : \A u \in Threads :
           thread[t].phase = "pack" => thread[u].phase # "encode"
    /\ \A w1 \in output_writes : \A w2 \in output_writes :
           w1.byte = w2.byte => w1.thread = w2.thread

\* two threads of a kernel with a second scratch buffer have packed bytes
\* from both buffers, past the barrier
C19_Witness ==
    /\ pc = "kernel"
    /\ launch.variant \in {"single_overflow", "chunk_overflow"}
    /\ \A t \in Threads : thread[t].phase \in {"pack", "done"}
    /\ \E w1 \in output_writes : \E w2 \in output_writes :
           w1.thread # w2.thread /\ w1.from = 1 /\ w2.from = 2

\* the boundary bytes of a launch: the byte at the overflow position goes to
\* the second scratch buffer, the byte before the chunk to the first
BoundaryBytes(l) ==
    (IF l.variant \in {"single_overflow", "chunk_overflow"}
     THEN {[buffer |-> 2, index |-> l.overflow_position]} ELSE {})
    \cup (IF l.variant \in {"chunk", "chunk_overflow"} /\ l.lower # 0
          THEN {[buffer |-> 1, index |-> l.lower - 1]} ELSE {})

RECURSIVE CodeStream(_)
CodeStream(n) == IF n = 0 THEN << >> ELSE CodeStream(n - 1) \o Code(input_file[n])

\* byte k of a bit string packed most significant bit first, zeros after
\* its end
StreamByte(bits, k) ==
    LET bit(j) == IF 8 * k + j <= Len(bits) THEN bits[8 * k + j] ELSE 0
    IN  bit(1) * 128 + bit(2) * 64 + bit(3) * 32 + bit(4) * 16 + bit(5) * 8 + bit(6) * 4
            + bit(7) * 2 + bit(8)

\* no array of the run has been read or written outside its bounds
InsideArrays ==
    \A b \in {gpu_memory_overflow_index, gpu_bit_padding_flag, integer_overflow_index,
               bit_padding_flag, input_file_data, d_input_file_data,
               d_byte_compressed_data, d_byte_compressed_data_overflow} : b.oob = {}

\* C22: when a segment is stitched at a boundary inside a byte (padding flag
\* 1), r being the bits of that byte the segments before it fill: the byte
\* that ends the previous segment has its low 8 - r bits zero, the first
\* byte of the next segment has its high r bits zero, the host buffer after
\* the merge holds the codes of all bytes so far, one after the other without
\* a gap, and the write position has advanced by the length of the segment
\* minus one.  Stated for the chunk loop without overflow and for the single
\* run with overflow.
C22_MergeConcatenates ==
    [][/\ (/\ pc = "chunks" /\ pc' = "chunks"
           /\ kernel_index' = kernel_index + 1
           /\ Peek(gpu_bit_padding_flag, kernel_index) = 1
           /\ InsideArrays') =>
              LET lower == Peek(gpu_memory_overflow_index, kernel_index * 2)
                  upper == Peek(gpu_memory_overflow_index, kernel_index * 2 + 1)
                  r == BitsUpTo(lower - 1) % 8
              IN  /\ Peek(input_file_data, pos - 1) % (2 ^ (8 - r)) = 0
                  /\ Peek(d_input_file_data', 0) \div (2 ^ (8 - r)) = 0
                  /\ \A k \in 0 .. (pos' - 1) :
                         Peek(input_file_data', k) = StreamByte(CodeStream(upper), k)
                  /\ pos' = pos + compressed_data_offset[upper] \div 8 - 1
       /\ (/\ pc = "gpu_ready" /\ pc' = "compressed"
           /\ num_kernel_runs = 1 /\ integer_overflow_flag # 0
           /\ Peek(bit_padding_flag, 0) = 1
           /\ InsideArrays') =>
              LET overflow_position == Peek(integer_overflow_index, 0)
                  first == compressed_data_offset[overflow_position] \div 8
                  bytes == compressed_data_offset[input_file_length] \div 8
                  r == BitsUpTo(overflow_position) % 8
              IN  /\ Peek(d_input_file_data', first - 1) % (2 ^ (8 - r)) = 0
                  /\ Peek(d_input_file_data', first) \div (2 ^ (8 - r)) = 0
                  /\ \A k \in 0 .. (first + bytes - 2) :
                         Peek(input_file_data', k)
                             = StreamByte(CodeStream(input_file_length), k)
                  /\ mem_offset \div 8 = first + bytes - 1]_vars

\* the planner of the single run with overflow after its first i iterations
OverflowPlanAfter(i) ==
    OverflowLoop(huffman_dictionary, input_file,
                 [off |-> ZeroOffsets(input_file_length),
                  integer_overflow_index |-> Calloc(num_kernel_runs * 2),
                  bit_padding_flag |-> Calloc(num_kernel_runs), sub_index |-> 0],
                 NUM_BYTES, 0, i)

\* C23: in the planner of the single run with overflow, iteration i records
\* an overflow boundary exactly when offset[i] + len + NUM_BYTES reaches
\* 2^32 (the width of unsigned int); it then stores i in the next slot of
\* integer_overflow_index, and when offset[i] is not a multiple of 8 it sets
\* the padding flag of that slot, makes offset[i + 1] the remainder of
\* offset[i] modulo 8 plus len and rounds offset[i] up to a multiple of 8;
\* otherwise offset[i + 1] is len.  Without a boundary offset[i + 1] is
\* offset[i] + len.
C23_OverflowBoundary ==
    (pc = "planned" /\ num_kernel_runs = 1 /\ integer_overflow_flag = 1) =>
        \A i \in 0 .. (input_file_length - 1) :
            LET before == OverflowPlanAfter(i)
                after == OverflowPlanAfter(i + 1)
                len == CodeLen(huffman_dictionary, input_file, i)
                p == before.sub_index
                r == before.off[i] % 8
            IN  /\ after.sub_index = p + 1 <=> before.off[i] + len + NUM_BYTES >= UIntMod
                /\ after.sub_index \in {p, p + 1}
                /\ after.sub_index = p =>
                       /\ after.off[i + 1] = before.off[i] + len
                       /\ after.off[i] = before.off[i]
                       /\ after.integer_overflow_index = before.integer_overflow_index
                       /\ after.bit_padding_flag = before.bit_padding_flag
                /\ after.sub_index = p + 1 =>
                       /\ Peek(after.integer_overflow_index, p) = i
                       /\ IF r # 0
                          THEN /\ Peek(after.bit_padding_flag, p) = 1
                               /\ after.off[i + 1] = r + len
                               /\ after.off[i] = before.off[i] + (8 - r)
                          ELSE /\ after.bit_padding_flag = before.bit_padding_flag
                               /\ after.off[i + 1] = len
                               /\ after.off[i] = before.off[i]
                /\ i + 1 = input_file_length =>
                       /\ compressed_data_offset
                              = PadLast(after.off, input_file_length)
                       /\ integer_overflow_index = after.integer_overflow_index
                       /\ bit_padding_flag = after.bit_padding_flag

\* the planner has recorded an overflow boundary inside a byte
C23_Witness ==
    /\ pc = "planned"
    /\ num_kernel_runs = 1
    /\ integer_overflow_flag = 1
    /\ Peek(integer_overflow_index, 0) > 0
    /\ Peek(bit_padding_flag, 0) = 1
    /\ integer_overflow_index.oob = {}
    /\ compressed_data_offset[Peek(integer_overflow_index, 0) + 1]
           < compressed_data_offset[Peek(integer_overflow_index, 0)]

\* the planner of several runs with overflow, run on the input of the state
BothPlan ==
    create_data_offset_array_both(huffman_dictionary, input_file, input_file_length,
                                  Calloc(num_kernel_runs * 2), Calloc(num_kernel_runs),
                                  Calloc(num_kernel_runs * 2), Calloc(num_kernel_runs),
                                  NUM_BYTES, mem_req)

\* C24: after the planner of several runs with overflow, offset[N] is a
\* multiple of 8 and the last chunk is closed at N: with c the number of
\* chunk boundaries the pass recorded, gpu_memory_overflow_index[2c + 1] = N,
\* whatever the number of overflow boundaries.
C24_LastChunkClosed ==
    (pc = "planned" /\ num_kernel_runs > 1 /\ integer_overflow_flag = 1) =>
        /\ compressed_data_offset[input_file_length] % 8 = 0
        /\ Peek(gpu_memory_overflow_index, 2 * BothPlan.overflow_index + 1)
               = input_file_length

\* C26: in the chunk loop without overflow every scratch access of every
\* chunk stays inside the one scratch buffer, allocated and zeroed with
\* offset[gpu_memory_overflow_index[1]] bytes: the offset at the end of every
\* chunk is at most the offset at the end of the first.
C26_ChunksFitBuffer ==
    (/\ pc \in {"planned", "gpu_ready", "chunks", "compressed"}
     /\ ChunkScenario
     /\ gpu_memory_overflow_index.oob = {}
     /\ gpu_bit_padding_flag.oob = {}) =>
        /\ \A k \in 0 .. (num_kernel_runs - 1) :
               compressed_data_offset[Peek(gpu_memory_overflow_index, 2 * k + 1)]
                   <= compressed_data_offset[Peek(gpu_memory_overflow_index, 1)]
        /\ d_byte_compressed_data.oob = {}

\* the byte at which the segment of the chunk being planned starts: the
\* boundary byte of the last chunk boundary recorded, or the first byte
SegmentStart ==
    IF plan_sub_index = 0 THEN 0
    ELSE Peek(gpu_memory_overflow_index, 2 * plan_sub_index) - 1

C28_OneOverflowPoint ==
    (pc = "planned" /\ num_kernel_runs = 1 /\ integer_overflow_flag = 1) =>
        /\ OverflowPlanAfter(input_file_length).sub_index = 1
        /\ integer_overflow_index.oob = {}
        /\ bit_padding_flag.oob = {}

\* post is pre with the slots start .. end sorted by count, ascending, equal
\* counts in the order they had (the letters of pre are its slots)
StablySorted(pre, post, start, end) ==
    /\ \A i \in 0 .. (PoolSize - 1) : (i < start \/ i > end) => post[i] = pre[i]
    /\ {post[i] : i \in start .. end} = {pre[i] : i \in start .. end}
    /\ \A i \in start .. end : \A j \in start .. end :
           i < j => \/ post[i].count < post[j].count
                    \/ (post[i].count = post[j].count /\ post[i].letter < post[j].letter)

\* C29: for every pool content and every range, the bubble sort of the
\* stand-alone decompressor and the insertion sort of the compressor leave
\* the pool in the same order, the range sorted by count ascending with
\* equal counts in their former order; and the two tree constructions built
\* on them leave the same pool.
C29_SortsAgree ==
    [][/\ (pc = "pool" /\ pc' = "sorted") =>
              /\ dec_huffman_tree_node' = huffman_tree_node'
              /\ \A index \in 0 .. (NumByteValues - 1), combined \in 0 .. (PoolSize - 1) :
                     huffman_tree_node'
                         = sort_huffman_tree(huffman_tree_node, index,
                                             distinct_character_count, combined)
                     => /\ StablySorted(huffman_tree_node, huffman_tree_node', combined,
                                        distinct_character_count - 1 + index)
                        /\ StablySorted(dec_huffman_tree_node, dec_huffman_tree_node',
                                        combined, distinct_character_count - 1 + index)
       /\ (pc = "pool" /\ pc' = "built") =>
              dec_huffman_tree_node' = huffman_tree_node']_vars

\* a sort has moved nodes, among them nodes of equal count
C29_Witness ==
    /\ pc = "sorted"
    /\ dec_huffman_tree_node = huffman_tree_node
    /\ \E i \in 0 .. (PoolSize - 2) :
           /\ huffman_tree_node[i].count = huffman_tree_node[i + 1].count
           /\ huffman_tree_node[i].letter # i
           /\ huffman_tree_node[i + 1].letter # i + 1
           /\ huffman_tree_node[i].letter + 1 < huffman_tree_node[i + 1].letter

\* C30: in a run of several kernels, when the handler goes on after the
\* kernel of a chunk (to the launch of the next chunk, or to the container
\* after the last), the bytes that kernel packed have been copied to the host
\* buffer: the offset[upper] / 8 bytes at the start of the device buffer
\* are in the host buffer right below the write position, the first of them
\* merged into the byte already there; and the container is written after
\* the kernel of every chunk has run.
C30_CopiedBeforeNext ==
    (/\ pc \in {"chunks", "overflow_chunks", "compressed"}
     /\ num_kernel_runs > 1
     /\ kernel_index >= 1
     /\ InsideArrays) =>
        LET upper == Peek(gpu_memory_overflow_index, 2 * (kernel_index - 1) + 1)
            bytes == compressed_data_offset[upper] \div 8
        IN  /\ pos >= bytes
            /\ \A j \in 0 .. (bytes - 1) :
                   LET host == Peek(input_file_data, pos - bytes + j)
                       device == Peek(d_input_file_data, j)
                   IN  IF j = 0 THEN ByteOr(host, device, 8) = host ELSE host = device
            /\ pc = "compressed" => kernel_index = num_kernel_runs

====
